---- MODULE Spec2Model ----
(***************************************************************************)
(* ServVia Trust Engine (servvia2/trust_engine/engine.py) and the step of  *)
(* execute_rag_pipeline that calls it (rag_service/execute_rag.py).        *)
(*                                                                         *)
(* Strings are TLA+ strings; substring tests, lower(), strip() and the     *)
(* \b word boundary of the regular expression are computed character by    *)
(* character.  Scores are integers in tenths (90 is 9.0): every term of    *)
(* the score is a multiple of 0.1 and the code rounds to one decimal.      *)
(* An optional value (None or a string) is a sequence of length 0 or 1.    *)
(* The three stores are the source's tables restricted to the herbs,       *)
(* conditions and drug keys named below; "effect", "mechanism" and "dose"  *)
(* texts are cut to their first words.  The emoji that open the warning    *)
(* strings are left out.                                                   *)
(***************************************************************************)
EXTENDS Integers, Sequences, FiniteSets, TLC

(***************************************************************************)
(* Bounds of the model                                                     *)
(***************************************************************************)
MaxWords == 2
MaxMeds == 2
MaxConds == 1
MaxAllergies == 1
MaxCitations == 4
MaxWarnings == 3
MaxQueryWords == 2
MaxAppends == 1
NumThreads == 2
MaxRecords == 2
MaxMessages == 22
MaxTicks == 2

(***************************************************************************)
(* String helpers (Python str methods and the re module)                   *)
(***************************************************************************)
UpperChars == "ABCDEFGHIJKLMNOPQRSTUVWXYZ"
LowerChars == "abcdefghijklmnopqrstuvwxyz"
DigitChars == "0123456789"

CharAt(s, i) == SubSeq(s, i, i)

CharsOf(s) == {CharAt(s, i) : i \in 1..Len(s)}

UpperSet == CharsOf(UpperChars)
LowerSet == CharsOf(LowerChars)
WordSet == UpperSet \cup LowerSet \cup CharsOf(DigitChars) \cup {"_"}

ToLowerMap == [c \in UpperSet |-> CharAt(LowerChars, CHOOSE i \in 1..26 : CharAt(UpperChars, i) = c)]
ToUpperMap == [c \in LowerSet |-> CharAt(UpperChars, CHOOSE i \in 1..26 : CharAt(LowerChars, i) = c)]

\* str.lower() on one character
LowerChar(c) == IF c \in UpperSet THEN ToLowerMap[c] ELSE c

\* str.lower(), character by character: the two halves of the string are
\* lowered and joined
RECURSIVE LowerEachChar(_)
LowerEachChar(s) ==
    IF s = "" THEN ""
    ELSE IF Len(s) = 1 THEN LowerChar(s)
    ELSE LowerEachChar(SubSeq(s, 1, Len(s) \div 2)) \o LowerEachChar(SubSeq(s, Len(s) \div 2 + 1, Len(s)))

\* str.upper() on one character
UpperChar(c) == IF c \in LowerSet THEN ToUpperMap[c] ELSE c

RECURSIVE upper(_)
upper(s) == IF s = "" THEN "" ELSE UpperChar(CharAt(s, 1)) \o upper(SubSeq(s, 2, Len(s)))

\* str.strip(): whitespace removed at both ends
RECURSIVE strip(_)
strip(s) ==
    IF s = "" THEN ""
    ELSE IF CharAt(s, 1) = " " THEN strip(SubSeq(s, 2, Len(s)))
    ELSE IF CharAt(s, Len(s)) = " " THEN strip(SubSeq(s, 1, Len(s) - 1))
    ELSE s

\* Python's "sub in s"
Contains(sub, s) ==
    \E i \in 0..(Len(s) - Len(sub)) : SubSeq(s, i + 1, i + Len(sub)) = sub

\* \w of the re module (ASCII part)
IsWordChar(c) == c \in WordSet

\* \b between position p and p+1 of s (p in 0..Len(s))
WordBoundary(s, p) ==
    (p >= 1 /\ IsWordChar(CharAt(s, p))) # (p < Len(s) /\ IsWordChar(CharAt(s, p + 1)))

\* re.search(r'\b' + re.escape(word) + r'\b', s)
SearchWord(word, s) ==
    \E i \in 0..(Len(s) - Len(word)) :
        /\ SubSeq(s, i + 1, i + Len(word)) = word
        /\ WordBoundary(s, i)
        /\ WordBoundary(s, i + Len(word))

\* sequences without repetition of length at most n over the set S
DistinctSeqs(S, n) ==
    UNION {{s \in [1..k -> S] : \A i, j \in 1..k : i # j => s[i] # s[j]} : k \in 0..n}

\* all the orders in which a set can be iterated
Orderings(S) == {s \in [1..Cardinality(S) -> S] : \A i, j \in 1..Cardinality(S) : i # j => s[i] # s[j]}

Last(s) == s[Len(s)]

Min(a, b) == IF a <= b THEN a ELSE b
Max(a, b) == IF a >= b THEN a ELSE b

(***************************************************************************)
(* Inputs of the calls                                                     *)
(***************************************************************************)
\* words an LLM response is made of: herb names in several spellings, a
\* store herb that the registry lacks, and a word that only begins with a herb
Vocabulary == {"Ginger", "turmeric", "chamomile", "peppermint", "kava", "gingerbread"}

RECURSIVE JoinWords(_)
JoinWords(ws) ==
    IF Len(ws) = 0 THEN ""
    ELSE IF Len(ws) = 1 THEN ws[1]
    ELSE ws[1] \o " " \o JoinWords(Tail(ws))

Responses == {JoinWords(ws) : ws \in UNION {[1..k -> Vocabulary] : k \in 0..MaxWords}}

Queries == {"I have a headache", "nauseous after a cold"}

CurrentConditions == {<<>>, <<" Nausea ">>}

MedicationPool == {"ibuprofen", "Blood thinners (warfarin, aspirin)"}

ConditionPool == {"Gallstones", "hemophilia (bleeding disorder), gallstones"}

AllergyPool == {"GINGER", "mint"}

\* the queries of the turns of a conversation: a medication taken, the same
\* medication stopped, a plain question and two emergencies
TurnQueries ==
    {"I take aspirin", "I stopped taking aspirin, can ginger help my nausea",
     "What helps with a headache", "I have CHEST PAIN", "I think I am choking"}

\* what the LLM generates in a turn
TurnResponses == {"Ginger and turmeric tea can help", "Rest and drink water"}

\* current_medications of the profile of the user of those turns
TurnMedications == {"Aspirin"}

(***************************************************************************)
(* Knowledge base loading                                                  *)
(***************************************************************************)
CRITICAL == "critical"
HIGH == "high"
MODERATE == "moderate"
LOW == "low"

\* TrustEngine._load_evidence_database: (herb, condition) -> entry
\* 'tier' holds EvidenceTier.value
LoadEvidenceDatabase ==
    ( <<"ginger", "nausea">> :>
        [tier |-> 1, mechanism |-> "5-HT3 receptor antagonism blocks nausea signals.",
         pubmed_ids |-> <<"PMC3016669", "PMC4818021">>, dose |-> "1-1.5g dried ginger"] ) @@
    ( <<"ginger", "headache">> :>
        [tier |-> 2, mechanism |-> "Gingerols and shogaols inhibit prostaglandin synthesis",
         pubmed_ids |-> <<"PMC3665023">>, dose |-> "250mg-1g dried ginger extract"] ) @@
    ( <<"ginger", "cold">> :>
        [tier |-> 2, mechanism |-> "Gingerols and shogaols have antiviral properties.",
         pubmed_ids |-> <<"PMC3665023", "PMC6341159">>, dose |-> "1-2g fresh ginger in tea"] ) @@
    ( <<"peppermint", "headache">> :>
        [tier |-> 1, mechanism |-> "Menthol activates TRPM8 cold receptors",
         pubmed_ids |-> <<"PMC4960504", "PMC6540030">>, dose |-> "2-3 drops peppermint oil"] ) @@
    ( <<"peppermint", "nausea">> :>
        [tier |-> 2, mechanism |-> "Menthol reduces gastric smooth muscle spasms",
         pubmed_ids |-> <<"PMC4729798">>, dose |-> "Aromatherapy, or 1-2 cups tea"] ) @@
    ( <<"chamomile", "nausea">> :>
        [tier |-> 2, mechanism |-> "Bisabolol and chamazulene have antispasmodic effects.",
         pubmed_ids |-> <<"PMC2995283">>, dose |-> "1-2 cups tea as needed"] ) @@
    ( <<"turmeric", "cold">> :>
        [tier |-> 2, mechanism |-> "Curcumin modulates immune response",
         pubmed_ids |-> <<"PMC5664031">>, dose |-> "500mg-1g with black pepper"] ) @@
    ( <<"chamomile", "eye strain">> :>
        [tier |-> 3, mechanism |-> "Anti-inflammatory properties soothe tired eyes.",
         pubmed_ids |-> <<>>, dose |-> "Cooled chamomile tea bags"] )

\* TrustEngine._load_interaction_database: herb -> profile; 'interacts_with'
\* keeps the declaration order of the dict as a sequence of <<drug key, severity>>
LoadInteractionDatabase ==
    ( "ginger" :>
        [interacts_with |-> << <<"aspirin", HIGH>>, <<"ibuprofen", MODERATE>>,
                               <<"warfarin", CRITICAL>>, <<"blood thinner", HIGH>>,
                               <<"blood thinners", HIGH>> >>,
         effect |-> "Ginger has blood-thinning properties",
         alternatives |-> <<"Peppermint oil (topical)", "Chamomile tea">>] ) @@
    ( "turmeric" :>
        [interacts_with |-> << <<"aspirin", HIGH>>, <<"warfarin", CRITICAL>>,
                               <<"metformin", MODERATE>> >>,
         effect |-> "Curcumin has antiplatelet and blood sugar-lowering effects.",
         alternatives |-> <<"Boswellia (for inflammation)", "Cold compress">>] ) @@
    ( "chamomile" :>
        [interacts_with |-> << <<"warfarin", LOW>>, <<"blood thinner", LOW>>, <<"sedative", LOW>> >>,
         effect |-> "Chamomile has mild blood-thinning and sedative effects.",
         alternatives |-> <<"Lavender tea", "Warm milk with honey">>] )

\* TrustEngine._load_contraindication_rules: herb -> rule
LoadContraindicationRules ==
    ( "ginger" :> [conditions |-> <<"gallstones", "bleeding disorder", "hemophilia">>] ) @@
    ( "turmeric" :> [conditions |-> <<"gallstones", "bile duct obstruction", "bleeding disorder">>] ) @@
    ( "kava" :> [conditions |-> <<"liver disease", "depression", "parkinsons">>] )

\* the part of additional_herbs kept in the model
additional_herbs == <<"turmeric", "ginger", "honey", "mint", "peppermint", "chamomile">>

\* the strings the engine lowers in verify_response: the call's arguments and
\* the names kept in the stores
LoweredStrings ==
    MedicationPool \cup ConditionPool \cup AllergyPool \cup Responses \cup Queries
    \cup TurnQueries \cup TurnResponses \cup TurnMedications
    \cup {key[1] : key \in DOMAIN LoadEvidenceDatabase}
    \cup {key[2] : key \in DOMAIN LoadEvidenceDatabase}
    \cup DOMAIN LoadInteractionDatabase
    \cup DOMAIN LoadContraindicationRules
    \cup UNION {{LoadContraindicationRules[h].conditions[i] :
                   i \in 1..Len(LoadContraindicationRules[h].conditions)} :
                h \in DOMAIN LoadContraindicationRules}
    \cup {additional_herbs[i] : i \in 1..Len(additional_herbs)}

\* str.lower() of each of them, computed once
LowerTable == [s \in LoweredStrings |-> LowerEachChar(s)] @@ ("" :> "")

\* str.lower(): the table's entry where there is one, else character by character
lower(s) == IF s \in DOMAIN LowerTable THEN LowerTable[s] ELSE LowerEachChar(s)

\* TrustEngine._build_herb_registry
BuildHerbRegistry(ev, inter) ==
    {lower(key[1]) : key \in DOMAIN ev}
    \cup {lower(herb) : herb \in DOMAIN inter}
    \cup {lower(additional_herbs[i]) : i \in 1..Len(additional_herbs)}

(***************************************************************************)
(* State: the TrustEngine object and the last call made on it              *)
(***************************************************************************)
VARIABLES
    evidence_db,        \* self.evidence_db
    interactions_db,    \* self.interactions_db
    contraindications,  \* self.contraindications
    known_herbs,        \* self.known_herbs
    user_profile,       \* the profile of the user whose request is served
    op,                 \* the operation performed last ("init" after construction)
    args,               \* the arguments of the verify_response call
    results,            \* the List[VerificationResult] verify_response returned
    global_warnings,    \* the global warnings verify_response returned
    verified_herbs,     \* verified_herbs of execute_rag_pipeline
    validation_section, \* the lines format_validation_section returned
    final_response,     \* llm_response of execute_rag_pipeline after STEP 9, as lines
    score_in,           \* arguments handed to the scorer on its own
    score_out,          \* the score it returned, <<>> before the call
    identified,         \* what _identify_condition returned, <<>> before the call
    interaction_args,   \* the herb and medication handed to check_single_interaction
    interaction_warning,\* what check_single_interaction returned, <<>> for None
    evidence_list,      \* what get_evidence_for_condition returned
    herb_known,         \* what is_herb_known returned, <<>> before the call
    claim_args,         \* the arguments handed to _verify_single_claim on its own
    claim_result,       \* the VerificationResult it returned, <<>> before the call
    remembered,         \* an earlier verify_response call and what it returned
    threads,            \* per thread: the call it makes, where it is, what it got
    frames,             \* per call frame: the local variables of verify_response
    HERBS_DATA,         \* knowledge_graph.models.HERBS_DATA: herb_id -> record
    DISEASES_DATA,      \* knowledge_graph.models.DISEASES_DATA: disease_id -> record
    lookup,             \* the last call if it was a get_by_name, with what it returned
    memory_store,       \* ConversationManager._memory_store: cache key -> data
    sent,               \* per user: every message handed to add_message, in call order
    clock,              \* datetime.now(), in minutes since the manager was created
    subject_calls,      \* per user: what the subject-context calls made so far amount to
    latest_detected,    \* per user: the conditions update_context detected in the latest
                        \* query in which it detected any, and those of them it added
    turn                \* the latest call of execute_rag_pipeline: its inputs, its locals
                        \* and the steps it went through

engine == <<evidence_db, interactions_db, contraindications, known_herbs>>

\* what the utility entry points returned
utility == <<identified, interaction_args, interaction_warning, evidence_list, herb_known,
             claim_args, claim_result, remembered>>

\* the calls in progress on a shared engine
concurrent == <<threads, frames>>

\* the knowledge graph repositories
repository == <<HERBS_DATA, DISEASES_DATA, lookup>>

\* the conversation manager and what its callers did
conversation == <<memory_store, sent, clock, subject_calls, latest_detected>>

\* the locals of execute_rag_pipeline
pipeline == <<turn>>

\* the state kept outside the TrustEngine
services == <<repository, conversation, pipeline>>

vars == <<evidence_db, interactions_db, contraindications, known_herbs,
          user_profile, op, args, results, global_warnings, verified_herbs, validation_section,
          final_response, score_in, score_out, utility, concurrent, services>>

(***************************************************************************)
(* Core verification methods                                               *)
(***************************************************************************)
\* the warning strings built in _verify_single_claim
InteractionText(herb_name, med, effect) ==
    "INTERACTION: " \o herb_name \o " may interact with " \o med \o ".  Reason: " \o effect

CautionText(herb_name, med, effect) ==
    "Caution: " \o herb_name \o " + " \o med \o " - monitor for: " \o effect

ContraindicatedText(herb_name, user_cond) ==
    "CONTRAINDICATED: Avoid " \o herb_name \o " with " \o user_cond

\* the match without its first half: only "med_lower in drug_key"
DrugKeyMatchesOneWay(drug_key, med_lower) == Contains(med_lower, drug_key)

\* "if drug_key in med_lower or med_lower in drug_key"
DrugKeyMatches(drug_key, med_lower) ==
    Contains(drug_key, med_lower) \/ Contains(med_lower, drug_key)

\* the severity branches with a caution for LOW as well
SeverityWarningsLowCautioned(herb_name, med, severity, effect) ==
    IF severity \in {CRITICAL, HIGH} THEN <<InteractionText(herb_name, med, effect)>>
    ELSE IF severity \in {MODERATE, LOW} THEN <<CautionText(herb_name, med, effect)>>
    ELSE <<>>

\* the strings one (medication, drug key) pair appends to warnings; each of
\* them is also assigned to interaction_note
SeverityWarnings(herb_name, med, severity, effect) ==
    IF severity \in {CRITICAL, HIGH} THEN <<InteractionText(herb_name, med, effect)>>
    ELSE IF severity = MODERATE THEN <<CautionText(herb_name, med, effect)>>
    ELSE <<>>

\* inner loop of Step 1: "for drug_key, severity in interacts_with.items()"
RECURSIVE DrugKeyLoop(_, _, _, _, _)
DrugKeyLoop(herb_name, med, med_lower, interaction_data, i) ==
    IF i > Len(interaction_data.interacts_with) THEN <<>>
    ELSE LET drug_key == interaction_data.interacts_with[i][1]
             severity == interaction_data.interacts_with[i][2]
         IN (IF DrugKeyMatches(drug_key, med_lower)
             THEN SeverityWarnings(herb_name, med, severity, interaction_data.effect)
             ELSE <<>>)
            \o DrugKeyLoop(herb_name, med, med_lower, interaction_data, i + 1)

\* outer loop of Step 1: "for med in user_medications"
RECURSIVE MedicationLoop(_, _, _, _)
MedicationLoop(herb_name, user_medications, interaction_data, j) ==
    IF j > Len(user_medications) THEN <<>>
    ELSE DrugKeyLoop(herb_name, user_medications[j], lower(user_medications[j]), interaction_data, 1)
         \o MedicationLoop(herb_name, user_medications, interaction_data, j + 1)

\* Step 1 of _verify_single_claim: the interaction strings in append order
CheckDrugInteractions(herb_name, user_medications) ==
    IF lower(herb_name) \in DOMAIN interactions_db
    THEN MedicationLoop(herb_name, user_medications, interactions_db[lower(herb_name)], 1)
    ELSE <<>>

\* the inner loop without user_cond.lower()
RECURSIVE UserConditionLoopCaseSensitive(_, _, _, _)
UserConditionLoopCaseSensitive(herb_name, blocked_lower, user_conditions, j) ==
    IF j > Len(user_conditions) THEN <<>>
    ELSE (IF Contains(blocked_lower, user_conditions[j])
          THEN <<ContraindicatedText(herb_name, user_conditions[j])>>
          ELSE <<>>)
         \o UserConditionLoopCaseSensitive(herb_name, blocked_lower, user_conditions, j + 1)

\* Step 2, inner loop: "for user_cond in user_conditions"
RECURSIVE UserConditionLoop(_, _, _, _)
UserConditionLoop(herb_name, blocked_lower, user_conditions, j) ==
    IF j > Len(user_conditions) THEN <<>>
    ELSE (IF Contains(blocked_lower, lower(user_conditions[j]))
          THEN <<ContraindicatedText(herb_name, user_conditions[j])>>
          ELSE <<>>)
         \o UserConditionLoop(herb_name, blocked_lower, user_conditions, j + 1)

\* Step 2, outer loop: "for blocked_condition in contra.get('conditions', [])"
RECURSIVE BlockedConditionLoop(_, _, _, _)
BlockedConditionLoop(herb_name, blocked, user_conditions, i) ==
    IF i > Len(blocked) THEN <<>>
    ELSE UserConditionLoop(herb_name, lower(blocked[i]), user_conditions, 1)
         \o BlockedConditionLoop(herb_name, blocked, user_conditions, i + 1)

\* Step 2 of _verify_single_claim
CheckContraindications(herb_name, user_conditions) ==
    IF lower(herb_name) \in DOMAIN contraindications
    THEN BlockedConditionLoop(herb_name, contraindications[lower(herb_name)].conditions,
                              user_conditions, 1)
    ELSE <<>>

\* a lookup by herb alone: any entry of the herb, whatever its condition
EvidenceLookupAnyCondition(herb_lower, condition_lower) ==
    IF \E key \in DOMAIN evidence_db : key[1] = herb_lower
    THEN <<evidence_db[CHOOSE key \in DOMAIN evidence_db : key[1] = herb_lower]>>
    ELSE <<>>

\* Step 3: self.evidence_db.get((herb_lower, condition_lower)), None as <<>>
EvidenceLookup(herb_lower, condition_lower) ==
    IF <<herb_lower, condition_lower>> \in DOMAIN evidence_db
    THEN <<evidence_db[<<herb_lower, condition_lower>>]>>
    ELSE <<>>

\* base_scores.get(tier_num, 3.0), in tenths
\* base_scores with the values of tiers 3 and 4 exchanged
BaseScoreExchanged(tier_num) ==
    CASE tier_num = 1 -> 90
      [] tier_num = 2 -> 75
      [] tier_num = 3 -> 35
      [] tier_num = 4 -> 55
      [] tier_num = 5 -> 15
      [] OTHER -> 30

BaseScore(tier_num) ==
    CASE tier_num = 1 -> 90
      [] tier_num = 2 -> 75
      [] tier_num = 3 -> 55
      [] tier_num = 4 -> 35
      [] tier_num = 5 -> 15
      [] OTHER -> 30

\* tier_labels.get(tier_num, "Unknown")
TierLabel(tier_num) ==
    CASE tier_num = 1 -> "Clinical Trial"
      [] tier_num = 2 -> "Mechanistic Study"
      [] tier_num = 3 -> "Traditional Use"
      [] tier_num = 4 -> "Anecdotal"
      [] tier_num = 5 -> "Theoretical"
      [] OTHER -> "Unknown"

\* the score with the penalty subtracted before any clamping
ConfidenceScoreClampLast(tier_num, pubmed_count, has_mechanism, warning_count) ==
    LET pubmed_bonus == Min(pubmed_count * 3, 10)
        mechanism_bonus == IF has_mechanism THEN 5 ELSE 0
    IN Max(Min(BaseScore(tier_num) + pubmed_bonus + mechanism_bonus - warning_count * 10, 100), 10)

\* the score without the floor at 1.0
ConfidenceScoreNoFloor(tier_num, pubmed_count, has_mechanism, warning_count) ==
    LET pubmed_bonus == Min(pubmed_count * 3, 10)
        mechanism_bonus == IF has_mechanism THEN 5 ELSE 0
    IN Min(BaseScore(tier_num) + pubmed_bonus + mechanism_bonus, 100) - warning_count * 10

\* Scientific Confidence Score of a claim with evidence, in tenths:
\* the bonuses, the cap at 10.0, then the penalty with the floor at 1.0
ConfidenceScore(tier_num, pubmed_count, has_mechanism, warning_count) ==
    LET pubmed_bonus == Min(pubmed_count * 3, 10)
        mechanism_bonus == IF has_mechanism THEN 5 ELSE 0
        capped == Min(BaseScore(tier_num) + pubmed_bonus + mechanism_bonus, 100)
    IN IF warning_count > 0 THEN Max(capped - warning_count * 10, 10) ELSE capped

\* confidence_score of a claim without evidence (2.0)
UnverifiedScore == 20

\* the VerificationResult of a claim with evidence
VerifiedResult(herb_name, condition, warnings, interaction_note, evidence) ==
    [herb_name |-> herb_name,
     condition |-> condition,
     is_valid |-> TRUE,
     confidence_score |-> ConfidenceScore(evidence.tier, Len(evidence.pubmed_ids),
                                          evidence.mechanism # "", Len(warnings)),
     evidence_tier |-> evidence.tier,
     evidence_tier_label |-> TierLabel(evidence.tier),
     mechanism |-> evidence.mechanism,
     pubmed_count |-> Len(evidence.pubmed_ids),
     warnings |-> warnings,
     is_hallucination |-> FALSE,
     hallucination_reason |-> <<>>,
     interaction_note |-> interaction_note,
     recommended_dose |-> <<evidence.dose>>]

\* an unverified result that pays the warning penalty as a verified one does
UnverifiedResultPenalized(herb_name, condition, warnings, interaction_note) ==
    [herb_name |-> herb_name,
     condition |-> condition,
     is_valid |-> FALSE,
     confidence_score |-> Max(UnverifiedScore - Len(warnings) * 10, 10),
     evidence_tier |-> 5,
     evidence_tier_label |-> "Unverified",
     mechanism |-> "No documented mechanism for this condition",
     pubmed_count |-> 0,
     warnings |-> warnings,
     is_hallucination |-> TRUE,
     hallucination_reason |-> <<"No evidence linking " \o herb_name \o " to " \o condition>>,
     interaction_note |-> interaction_note,
     recommended_dose |-> <<>>]

\* the VerificationResult of a claim without evidence
UnverifiedResult(herb_name, condition, warnings, interaction_note) ==
    [herb_name |-> herb_name,
     condition |-> condition,
     is_valid |-> FALSE,
     confidence_score |-> UnverifiedScore,
     evidence_tier |-> 5,
     evidence_tier_label |-> "Unverified",
     mechanism |-> "No documented mechanism for this condition",
     pubmed_count |-> 0,
     warnings |-> warnings,
     is_hallucination |-> TRUE,
     hallucination_reason |-> <<"No evidence linking " \o herb_name \o " to " \o condition>>,
     interaction_note |-> interaction_note,
     recommended_dose |-> <<>>]

\* "if evidence: ... else: ..." at the end of _verify_single_claim
BuildResult(herb_name, condition, warnings, interaction_note, evidence) ==
    IF Len(evidence) > 0
    THEN VerifiedResult(herb_name, condition, warnings, interaction_note, evidence[1])
    ELSE UnverifiedResult(herb_name, condition, warnings, interaction_note)

\* Steps 1 and 2: warnings and interaction_note once both checks have run;
\* interaction_note is the interaction string appended last
SafetyChecks(interactions, contra_warnings) ==
    [warnings |-> interactions \o contra_warnings,
     interaction_note |-> IF Len(interactions) > 0 THEN <<Last(interactions)>> ELSE <<>>]

\* a _verify_single_claim that looks the evidence up first and runs the
\* safety checks only for a claim that has evidence
ResultAfterChecksEvidenceFirst(herb_name, condition, checks) ==
    IF Len(EvidenceLookup(lower(herb_name), lower(condition))) > 0
    THEN BuildResult(herb_name, condition, checks.warnings, checks.interaction_note,
                     EvidenceLookup(lower(herb_name), lower(condition)))
    ELSE BuildResult(herb_name, condition, <<>>, <<>>, <<>>)

ResultAfterChecks(herb_name, condition, checks) ==
    BuildResult(herb_name, condition, checks.warnings, checks.interaction_note,
                EvidenceLookup(lower(herb_name), lower(condition)))

\* TrustEngine._verify_single_claim
VerifySingleClaim(herb_name, condition, user_conditions, user_medications) ==
    ResultAfterChecks(herb_name, condition,
                      SafetyChecks(CheckDrugInteractions(herb_name, user_medications),
                                   CheckContraindications(herb_name, user_conditions)))

\* condition_map of _identify_condition, in declaration order
condition_map ==
    << <<"headache", <<"headache", "head pain", "migraine", "head hurts">> >>,
       <<"fever", <<"fever", "temperature", "feverish">> >>,
       <<"cold", <<"cold", "runny nose", "congestion", "stuffy">> >>,
       <<"cough", <<"cough", "coughing">> >>,
       <<"nausea", <<"nausea", "nauseous", "vomit", "queasy">> >> >>

\* a classifier in which the condition declared last wins
RECURSIVE IdentifyConditionLastMatch(_, _)
IdentifyConditionLastMatch(query_lower, i) ==
    IF i > Len(condition_map) THEN "general health"
    ELSE LET later == IdentifyConditionLastMatch(query_lower, i + 1)
         IN IF later # "general health" THEN later
            ELSE IF \E k \in 1..Len(condition_map[i][2]) :
                        Contains(condition_map[i][2][k], query_lower)
                 THEN condition_map[i][1]
                 ELSE "general health"

\* TrustEngine._identify_condition
RECURSIVE IdentifyConditionFrom(_, _)
IdentifyConditionFrom(query_lower, i) ==
    IF i > Len(condition_map) THEN "general health"
    ELSE IF \E k \in 1..Len(condition_map[i][2]) : Contains(condition_map[i][2][k], query_lower)
         THEN condition_map[i][1]
         ELSE IdentifyConditionFrom(query_lower, i + 1)

IdentifyCondition(query) == IdentifyConditionFrom(lower(query), 1)

\* global warnings that count the warnings instead of the results
GenerateGlobalWarningsPerWarning(rs) ==
    LET hallucination_count == Cardinality({i \in 1..Len(rs) : rs[i].is_hallucination})
        contraindication_count ==
            Cardinality(UNION {{<<i, k>> : k \in {k \in 1..Len(rs[i].warnings) :
                                       Contains("CONTRAINDICATED", rs[i].warnings[k])}} :
                               i \in 1..Len(rs)})
    IN (IF contraindication_count > 0
        THEN <<ToString(contraindication_count) \o " remedy(s) may be contraindicated for you">>
        ELSE <<>>)
       \o
       (IF hallucination_count > 0
        THEN <<ToString(hallucination_count)
               \o " suggestion(s) could not be verified against our evidence database">>
        ELSE <<>>)

\* TrustEngine._generate_global_warnings
GenerateGlobalWarnings(rs) ==
    LET hallucination_count == Cardinality({i \in 1..Len(rs) : rs[i].is_hallucination})
        contraindication_count ==
            Cardinality({i \in 1..Len(rs) :
                \E k \in 1..Len(rs[i].warnings) : Contains("CONTRAINDICATED", rs[i].warnings[k])})
    IN (IF contraindication_count > 0
        THEN <<ToString(contraindication_count) \o " remedy(s) may be contraindicated for you">>
        ELSE <<>>)
       \o
       (IF hallucination_count > 0
        THEN <<ToString(hallucination_count)
               \o " suggestion(s) could not be verified against our evidence database">>
        ELSE <<>>)

\* the allergy test without a.lower()
UserIsAllergicCaseSensitive(herb, user_allergies) ==
    herb \in {user_allergies[i] : i \in 1..Len(user_allergies)}

\* "herb not in [a.lower() for a in user_allergies]", negated
UserIsAllergic(herb, user_allergies) ==
    herb \in {lower(user_allergies[i]) : i \in 1..Len(user_allergies)}

\* the mention test without the word boundaries
HerbMentionedAnywhere(herb, response_lower) == Contains(herb, response_lower)

\* "if re.search(r'\b' + re.escape(herb) + r'\b', response_lower)"
HerbMentioned(herb, response_lower) == SearchWord(herb, response_lower)

\* set(found_herbs) of verify_response
FoundHerbsIn(response_lower, user_allergies) ==
    {herb \in known_herbs :
        HerbMentioned(herb, response_lower) /\ ~UserIsAllergic(herb, user_allergies)}

\* a scan that keeps the herbs of the call before (found_herbs held on the
\* object instead of in the call)
FoundHerbsKept(llm_response, user_allergies) ==
    FoundHerbsIn(lower(llm_response), user_allergies)
        \cup {results[i].herb_name : i \in 1..Len(results)}

FoundHerbs(llm_response, user_allergies) == FoundHerbsIn(lower(llm_response), user_allergies)

\* a verify_response that asks the classifier first and falls back on the
\* condition passed by the caller
ActiveConditionQueryFirst(query, current_condition) ==
    IF IdentifyCondition(query) # "general health" \/ Len(current_condition) = 0
    THEN IdentifyCondition(query)
    ELSE strip(lower(current_condition[1]))

\* the condition verify_response verifies against
ActiveCondition(query, current_condition) ==
    IF Len(current_condition) > 0 /\ current_condition[1] # ""
    THEN strip(lower(current_condition[1]))
    ELSE IdentifyCondition(query)

\* TrustEngine.verify_response; order is the order in which set(found_herbs)
\* is iterated
RECURSIVE VerifyEachHerb(_, _, _, _, _)
VerifyEachHerb(order, i, condition, user_conditions, user_medications) ==
    IF i > Len(order) THEN <<>>
    ELSE <<VerifySingleClaim(order[i], condition, user_conditions, user_medications)>>
         \o VerifyEachHerb(order, i + 1, condition, user_conditions, user_medications)

ReturnResults(rs) == [results |-> rs, global_warnings |-> GenerateGlobalWarnings(rs)]

VerifyResponse(a, order) ==
    ReturnResults(VerifyEachHerb(order, 1, ActiveCondition(a.query, a.current_condition),
                                 a.user_conditions, a.user_medications))

(***************************************************************************)
(* Utility methods                                                         *)
(***************************************************************************)
\* the interaction test without "or med_lower in drug_key"
SingleInteractionMatchesOneWay(drug_key, med_lower) == Contains(drug_key, med_lower)

\* "if drug_key in med_lower or med_lower in drug_key" of check_single_interaction
SingleInteractionMatches(drug_key, med_lower) ==
    Contains(drug_key, med_lower) \/ Contains(med_lower, drug_key)

\* the InteractionWarning built for the key that matched; 'alternatives' is
\* the list object of the store itself, named here by the herb it belongs to
InteractionWarningOf(herb, medication, herb_lower, severity) ==
    [herb |-> herb,
     drug |-> medication,
     severity |-> severity,
     effect |-> interactions_db[herb_lower].effect,
     recommendation |-> "Avoid " \o herb \o " while taking " \o medication,
     alternatives |-> [list_of |-> herb_lower]]

\* "for drug_key, severity in interaction_data['interacts_with'].items()":
\* the first key that matches returns
RECURSIVE SingleInteractionLoop(_, _, _, _, _)
SingleInteractionLoop(herb, medication, herb_lower, med_lower, i) ==
    IF i > Len(interactions_db[herb_lower].interacts_with) THEN <<>>
    ELSE IF SingleInteractionMatches(interactions_db[herb_lower].interacts_with[i][1], med_lower)
         THEN <<InteractionWarningOf(herb, medication, herb_lower,
                                     interactions_db[herb_lower].interacts_with[i][2])>>
         ELSE SingleInteractionLoop(herb, medication, herb_lower, med_lower, i + 1)

\* TrustEngine.check_single_interaction; None is <<>>
CheckSingleInteraction(herb, medication) ==
    IF lower(herb) \notin DOMAIN interactions_db THEN <<>>
    ELSE SingleInteractionLoop(herb, medication, lower(herb), lower(medication), 1)

\* the keys of evidence_db in the order of the dict
EvidenceOrder ==
    << <<"peppermint", "headache">>, <<"ginger", "headache">>, <<"ginger", "cold">>,
       <<"turmeric", "cold">>, <<"ginger", "nausea">>, <<"peppermint", "nausea">>,
       <<"chamomile", "nausea">>, <<"chamomile", "eye strain">> >>

\* results.sort(key=lambda x: x['tier']): stable, lower tier first
SortByTier(rs) ==
    SelectSeq(rs, LAMBDA x : x.tier = 1) \o SelectSeq(rs, LAMBDA x : x.tier = 2)
    \o SelectSeq(rs, LAMBDA x : x.tier = 3) \o SelectSeq(rs, LAMBDA x : x.tier = 4)
    \o SelectSeq(rs, LAMBDA x : x.tier = 5)

\* TrustEngine.get_evidence_for_condition
GetEvidenceForCondition(condition) ==
    LET keys == SelectSeq(EvidenceOrder,
                          LAMBDA key : key \in DOMAIN evidence_db /\ key[2] = lower(condition))
    IN SortByTier([i \in 1..Len(keys) |->
                     [herb |-> keys[i][1],
                      tier |-> evidence_db[keys[i]].tier,
                      mechanism |-> evidence_db[keys[i]].mechanism,
                      dose |-> evidence_db[keys[i]].dose]])

\* TrustEngine.is_herb_known
IsHerbKnown(herb) == lower(herb) \in known_herbs

(***************************************************************************)
(* Output formatting                                                       *)
(***************************************************************************)
\* str.title(): a letter that follows a non-letter is upper case, the others lower
RECURSIVE TitleFrom(_, _)
TitleFrom(s, after_letter) ==
    IF s = "" THEN ""
    ELSE LET c == CharAt(s, 1)
             is_letter == c \in UpperSet \cup LowerSet
         IN (IF after_letter THEN LowerChar(c) ELSE UpperChar(c))
            \o TitleFrom(SubSeq(s, 2, Len(s)), is_letter)

title(s) == TitleFrom(s, FALSE)

\* a score in tenths as Python prints the float: 83 is "8.3"
FormatScore(score) == ToString(score \div 10) \o "." \o ToString(score % 10)

\* the colour of the emoji in front of the score
ConfidenceEmoji(score) ==
    IF score >= 80 THEN "GREEN" ELSE IF score >= 50 THEN "YELLOW" ELSE "RED"

RECURSIVE FlattenLines(_)
FlattenLines(blocks) ==
    IF Len(blocks) = 0 THEN <<>> ELSE Head(blocks) \o FlattenLines(Tail(blocks))

VerifiedHeader == "**Verified Remedies:**"
UnverifiedHeader == "**Unverified (Use with Caution):**"
LegendHeader == "**Confidence Score Legend:**"

\* the lines written for one entry of the verified list
VerifiedBlock(r) ==
    << "**" \o title(r.herb_name) \o "** " \o ConfidenceEmoji(r.confidence_score)
            \o " **" \o FormatScore(r.confidence_score) \o "/10**",
       "Evidence: " \o r.evidence_tier_label \o " (" \o ToString(r.pubmed_count) \o " studies)",
       "Mechanism: " \o r.mechanism >>
    \o (IF Len(r.recommended_dose) > 0 /\ r.recommended_dose[1] # ""
        THEN <<"Dose: " \o r.recommended_dose[1]>> ELSE <<>>)
    \o (IF Len(r.interaction_note) > 0 /\ r.interaction_note[1] # ""
        THEN <<r.interaction_note[1]>> ELSE <<>>)
    \o SelectSeq(r.warnings, LAMBDA w : <<w>> # r.interaction_note)
    \o <<"">>

\* the lines written for one entry of the unverified list
UnverifiedBlock(r) ==
    << "**" \o title(r.herb_name) \o "** - "
            \o (IF Len(r.hallucination_reason) > 0 THEN r.hallucination_reason[1] ELSE "None") >>
    \o (IF Len(r.interaction_note) > 0 /\ r.interaction_note[1] # ""
        THEN <<"   " \o r.interaction_note[1]>> ELSE <<>>)

\* the text format_validation_section builds after its test of the list:
\* title, global warnings, the two sections and the legend
FormatSections(rs, gw) ==
    LET verified == SelectSeq(rs, LAMBDA r : r.is_valid /\ ~r.is_hallucination)
        unverified == SelectSeq(rs, LAMBDA r : r.is_hallucination)
    IN <<"", "", "---", "", "**Scientific Validation (Trust Engine):**", "">>
       \o (IF Len(gw) > 0 THEN gw \o <<"">> ELSE <<>>)
       \o (IF Len(verified) > 0
           THEN <<VerifiedHeader, "">>
                \o FlattenLines([i \in 1..Len(verified) |-> VerifiedBlock(verified[i])])
           ELSE <<>>)
       \o (IF Len(unverified) > 0
           THEN <<UnverifiedHeader, "">>
                \o FlattenLines([i \in 1..Len(unverified) |-> UnverifiedBlock(unverified[i])])
                \o <<"">>
           ELSE <<>>)
       \o <<LegendHeader, "",
            "| Score | Meaning |",
            "|-------|--------|",
            "| GREEN 8-10 | Strong clinical evidence |",
            "| YELLOW 5-7 | Good research support |",
            "| RED 1-4 | Limited evidence |">>

\* a formatter without "if not results: return ''"
FormatValidationSectionUnguarded(rs, gw) == FormatSections(rs, gw)

\* TrustEngine.format_validation_section; the returned text as its lines,
\* the empty string as <<>>
FormatValidationSection(rs, gw) ==
    IF Len(rs) = 0 THEN <<>> ELSE FormatSections(rs, gw)

(***************************************************************************)
(* STEP 9 of execute_rag_pipeline                                          *)
(***************************************************************************)
\* "for r in results: if r.is_valid and not r.is_hallucination:
\*      verified_herbs.append(r.herb_name)"
CollectVerifiedHerbs(rs) ==
    LET kept == SelectSeq(rs, LAMBDA r : r.is_valid /\ ~r.is_hallucination)
    IN [i \in 1..Len(kept) |-> kept[i].herb_name]

\* "if results: validation_section = trust_engine.format_validation_section(
\*      results, global_warnings); llm_response = llm_response + validation_section":
\* the section is formatted only for a non-empty result list
ValidationSectionFor(rs, gw) ==
    IF Len(rs) > 0 THEN FormatValidationSection(rs, gw) ELSE <<>>

\* the response text followed by the lines appended to it
AppendValidationSection(llm_response, section) == <<llm_response>> \o section

(***************************************************************************)
(* The state machine                                                       *)
(***************************************************************************)
\* user_profile as execute_rag_pipeline receives it
UserProfiles ==
    [medical_conditions : DistinctSeqs(ConditionPool, MaxConds),
     current_medications : DistinctSeqs(MedicationPool, MaxMeds),
     allergies : DistinctSeqs(AllergyPool, MaxAllergies)]

NoProfile == [medical_conditions |-> <<>>, current_medications |-> <<>>, allergies |-> <<>>]

\* the arguments STEP 9 hands to verify_response
CallArgs(profile) ==
    [llm_response : Responses,
     query : Queries,
     user_conditions : {profile.medical_conditions},
     user_medications : {profile.current_medications},
     user_allergies : {profile.allergies},
     current_condition : CurrentConditions]

NoArgs == [llm_response |-> "", query |-> "", user_conditions |-> <<>>,
           user_medications |-> <<>>, user_allergies |-> <<>>, current_condition |-> <<>>]

ScoreInputs ==
    [tier : 1..5, pubmed_count : 0..MaxCitations, has_mechanism : BOOLEAN,
     warning_count : 0..MaxWarnings]

NoScoreInput == [tier |-> 1, pubmed_count |-> 0, has_mechanism |-> FALSE, warning_count |-> 0]

\* no utility entry point has been called
UtilityIdle ==
    /\ identified = <<>>
    /\ interaction_args = <<>>
    /\ interaction_warning = <<>>
    /\ evidence_list = <<>>
    /\ herb_known = <<>>
    /\ claim_args = <<>>
    /\ claim_result = <<>>
    /\ remembered = <<>>

\* no thread shares the engine
\* the module-level dicts of knowledge_graph.models as loaded
EmptyDict == [k \in {} |-> <<>>]

RepositoryIdle ==
    /\ HERBS_DATA = EmptyDict
    /\ DISEASES_DATA = EmptyDict
    /\ lookup = <<>>

\* the users of the conversation manager
Users == {"asha@example.com", "ravi@example.com"}

\* ConversationManager.__init__: self._memory_store = {}
ConversationIdle ==
    /\ memory_store = EmptyDict
    /\ sent = [u \in Users |-> <<>>]
    /\ clock = 0
    /\ subject_calls = [u \in Users |-> "none"]
    /\ latest_detected = [u \in Users |-> [conditions |-> {}, added |-> {}]]

\* execute_rag_pipeline was not called yet
NoTurn ==
    [n |-> 0, email_id |-> "", query |-> "", emergency_type |-> <<>>, steps |-> {},
     removed |-> <<>>, stopped_medications |-> <<>>, accumulated_medications |-> <<>>]

PipelineIdle == turn = NoTurn

\* the services as the specifications of the TrustEngine leave them
ServicesIdle == RepositoryIdle /\ ConversationIdle /\ PipelineIdle

ConcurrentIdle ==
    /\ threads = <<>>
    /\ frames = <<>>

\* TrustEngine.__init__
EngineInit ==
    /\ evidence_db = LoadEvidenceDatabase
    /\ interactions_db = LoadInteractionDatabase
    /\ contraindications = LoadContraindicationRules
    /\ known_herbs = BuildHerbRegistry(LoadEvidenceDatabase, LoadInteractionDatabase)

Init ==
    /\ EngineInit
    /\ user_profile \in UserProfiles
    /\ op = "init"
    /\ args = NoArgs
    /\ results = <<>>
    /\ global_warnings = <<>>
    /\ verified_herbs = <<>>
    /\ validation_section = <<>>
    /\ final_response = <<>>
    /\ score_in = NoScoreInput
    /\ score_out = <<>>
    /\ UtilityIdle
    /\ ConcurrentIdle
    /\ ServicesIdle

\* STEP 9 of execute_rag_pipeline in a turn where no medication was stopped:
\* a fresh TrustEngine verifies the response, the verified herbs are collected
\* and the validation section is formatted
TrustEngineValidation ==
    /\ op = "init"
    /\ \E a \in CallArgs(user_profile) :
        \E order \in Orderings(FoundHerbs(a.llm_response, a.user_allergies)) :
            \E ret \in {VerifyResponse(a, order)} :
             \E section \in {ValidationSectionFor(ret.results, ret.global_warnings)} :
               /\ op' = "validated"
               /\ args' = a
               /\ results' = ret.results
               /\ global_warnings' = ret.global_warnings
               /\ verified_herbs' = CollectVerifiedHerbs(ret.results)
               /\ validation_section' = section
               /\ final_response' = AppendValidationSection(a.llm_response, section)
               /\ UNCHANGED <<engine, user_profile, score_in, score_out, utility, concurrent, services>>

Next == TrustEngineValidation

Spec == Init /\ [][Next]_vars

\* verify_response and _identify_condition on their own, for the choice of
\* the condition: the arguments are drawn at the start
QueryWords == {"Headache", "fever", "cold", "coughing", "nauseous", "tired"}

ConditionQueries == {JoinWords(ws) : ws \in UNION {[1..k -> QueryWords] : k \in 0..MaxQueryWords}}

SuppliedConditions == {<<>>, <<"">>, <<" Nausea ">>, <<"HEADACHE">>}

ConditionResponses == {"Ginger peppermint", "chamomile"}

ConditionArgs ==
    [llm_response : ConditionResponses,
     query : ConditionQueries,
     user_conditions : {<<>>},
     user_medications : {<<>>},
     user_allergies : {<<>>},
     current_condition : SuppliedConditions]

ConditionInit ==
    /\ EngineInit
    /\ user_profile = NoProfile
    /\ op = "init"
    /\ args \in ConditionArgs
    /\ results = <<>>
    /\ global_warnings = <<>>
    /\ verified_herbs = <<>>
    /\ validation_section = <<>>
    /\ final_response = <<>>
    /\ score_in = NoScoreInput
    /\ score_out = <<>>
    /\ UtilityIdle
    /\ ConcurrentIdle
    /\ ServicesIdle

\* engine.verify_response(**args)
VerifyResponseCall ==
    /\ op = "init"
    /\ \E order \in Orderings(FoundHerbs(args.llm_response, args.user_allergies)) :
        \E ret \in {VerifyResponse(args, order)} :
           /\ op' = "validated"
           /\ results' = ret.results
           /\ global_warnings' = ret.global_warnings
    /\ UNCHANGED <<engine, user_profile, args, verified_herbs, validation_section,
                   final_response, score_in, score_out, utility, concurrent, services>>

\* engine._identify_condition(args.query)
IdentifyConditionCall ==
    /\ identified = <<>>
    /\ identified' = <<IdentifyCondition(args.query)>>
    /\ UNCHANGED <<engine, user_profile, op, args, results, global_warnings, verified_herbs,
                   validation_section, final_response, score_in, score_out, interaction_args,
                   interaction_warning, evidence_list, herb_known, claim_args, claim_result,
                   remembered, concurrent, services>>

ConditionNext == VerifyResponseCall \/ IdentifyConditionCall

SpecCondition == ConditionInit /\ [][ConditionNext]_vars

\* One TrustEngine that lives on and serves any sequence of calls of its
\* entry points.  op names the call made last; the caller holds the results
\* of the last verify_response and the value the last utility call returned.
EngineArgs ==
    [llm_response : {"Ginger turmeric", "chamomile", ""},
     query : {"I have a headache"},
     user_conditions : {<<>>},
     user_medications : {<<>>, <<"warfarin">>},
     user_allergies : {<<>>},
     current_condition : {<<"nausea">>}]

SharedInit ==
    /\ EngineInit
    /\ user_profile = NoProfile
    /\ op = "init"
    /\ args = NoArgs
    /\ results = <<>>
    /\ global_warnings = <<>>
    /\ verified_herbs = <<>>
    /\ validation_section = <<>>
    /\ final_response = <<>>
    /\ score_in = NoScoreInput
    /\ score_out = <<>>
    /\ UtilityIdle
    /\ ConcurrentIdle
    /\ ServicesIdle

\* the record kept of a verify_response call: its arguments, what it
\* returned, whether other calls came after it (between) and whether the same
\* call was made again after those (again)
Remember(a, ret) ==
    [args |-> a,
     results |-> {ret.results[i] : i \in 1..Len(ret.results)},
     global_warnings |-> ret.global_warnings,
     between |-> FALSE,
     again |-> FALSE]

\* another call or a caller's write happened after the remembered call
NoteOtherCall ==
    remembered' = IF remembered = <<>> THEN <<>>
                  ELSE <<[remembered[1] EXCEPT !.between = TRUE]>>

\* the value returned by an earlier utility call is dropped
DropUtilityReturns ==
    /\ interaction_args' = <<>>
    /\ interaction_warning' = <<>>
    /\ evidence_list' = <<>>
    /\ herb_known' = <<>>
    /\ validation_section' = <<>>

\* number of elements callers have appended to lists of the store
TotalAppends ==
    LET herbs == DOMAIN interactions_db
        Extra(h) == Len(interactions_db[h].alternatives)
                        - Len(LoadInteractionDatabase[h].alternatives)
        RECURSIVE Sum(_)
        Sum(S) == IF S = {} THEN 0
                  ELSE LET h == CHOOSE x \in S : TRUE IN Extra(h) + Sum(S \ {h})
    IN Sum(herbs)

\* engine.verify_response(**a) on the shared engine
EngineVerifyResponse ==
    /\ \E a \in EngineArgs :
        \E order \in Orderings(FoundHerbs(a.llm_response, a.user_allergies)) :
            \E ret \in {VerifyResponse(a, order)} :
               /\ op' = "validated"
               /\ args' = a
               /\ results' = ret.results
               /\ global_warnings' = ret.global_warnings
               /\ IF remembered = <<>>
                  THEN remembered' \in {<<>>, <<Remember(a, ret)>>}
                  ELSE IF remembered[1].args = a
                  THEN remembered' = <<[remembered[1] EXCEPT !.again = @ \/ remembered[1].between]>>
                  ELSE NoteOtherCall
    /\ DropUtilityReturns
    /\ UNCHANGED <<engine, user_profile, verified_herbs, final_response, score_in, score_out,
                   identified, claim_args, claim_result, concurrent, services>>

\* engine.check_single_interaction(herb, medication)
CheckSingleInteractionCall(herb, medication) ==
    /\ op' = "checked"
    /\ interaction_args' = <<[herb |-> herb, medication |-> medication]>>
    /\ interaction_warning' = CheckSingleInteraction(herb, medication)
    /\ evidence_list' = <<>>
    /\ herb_known' = <<>>
    /\ validation_section' = <<>>
    /\ NoteOtherCall
    /\ UNCHANGED <<engine, user_profile, args, results, global_warnings, verified_herbs,
                   final_response, score_in, score_out, identified, claim_args, claim_result,
                   concurrent, services>>

EngineCheckSingleInteraction ==
    \E herb \in {"Ginger", "chamomile"} : \E medication \in {"Warfarin", "paracetamol"} :
        CheckSingleInteractionCall(herb, medication)

\* the caller appends to the 'alternatives' list of the warning it was
\* handed, which is the list the store holds
CallerAppendsAlternative ==
    /\ interaction_warning # <<>>
    /\ TotalAppends < MaxAppends
    /\ interactions_db' =
          [interactions_db EXCEPT ![interaction_warning[1].alternatives.list_of].alternatives
                                      = Append(@, "Feverfew")]
    /\ NoteOtherCall
    /\ UNCHANGED <<evidence_db, contraindications, known_herbs, user_profile, op, args, results,
                   global_warnings, verified_herbs, validation_section, final_response,
                   score_in, score_out, identified, interaction_args, interaction_warning,
                   evidence_list, herb_known, claim_args, claim_result, concurrent, services>>

\* engine.get_evidence_for_condition(condition)
EngineGetEvidenceForCondition ==
    /\ \E condition \in {"Nausea", "flu"} :
        evidence_list' = GetEvidenceForCondition(condition)
    /\ op' = "evidence"
    /\ interaction_args' = <<>>
    /\ interaction_warning' = <<>>
    /\ herb_known' = <<>>
    /\ validation_section' = <<>>
    /\ NoteOtherCall
    /\ UNCHANGED <<engine, user_profile, args, results, global_warnings, verified_herbs,
                   final_response, score_in, score_out, identified, claim_args, claim_result,
                   concurrent, services>>

\* engine.is_herb_known(herb)
EngineIsHerbKnown ==
    /\ \E herb \in {"Ginger", "kava"} : herb_known' = <<IsHerbKnown(herb)>>
    /\ op' = "known"
    /\ interaction_args' = <<>>
    /\ interaction_warning' = <<>>
    /\ evidence_list' = <<>>
    /\ validation_section' = <<>>
    /\ NoteOtherCall
    /\ UNCHANGED <<engine, user_profile, args, results, global_warnings, verified_herbs,
                   final_response, score_in, score_out, identified, claim_args, claim_result,
                   concurrent, services>>

\* engine.format_validation_section(results, global_warnings) on the results
\* the caller holds
EngineFormatValidationSection ==
    /\ validation_section' = FormatValidationSection(results, global_warnings)
    /\ op' = "formatted"
    /\ interaction_args' = <<>>
    /\ interaction_warning' = <<>>
    /\ evidence_list' = <<>>
    /\ herb_known' = <<>>
    /\ NoteOtherCall
    /\ UNCHANGED <<engine, user_profile, args, results, global_warnings, verified_herbs,
                   final_response, score_in, score_out, identified, claim_args, claim_result,
                   concurrent, services>>

SharedNext ==
    \/ EngineVerifyResponse
    \/ EngineCheckSingleInteraction
    \/ CallerAppendsAlternative
    \/ EngineGetEvidenceForCondition
    \/ EngineIsHerbKnown
    \/ EngineFormatValidationSection

SpecEngine == SharedInit /\ [][SharedNext]_vars

\* Several threads call verify_response on one engine.  A call is cut into
\* the steps between which another thread may run: entry, the scan of the
\* response, the start of the loop over set(found_herbs), one
\* _verify_single_claim per herb, and the return.  Each thread's arguments
\* are drawn at the start.
Threads == 1..NumThreads

ThreadArgs ==
    [llm_response : {"Ginger turmeric", "chamomile"},
     query : {"I have a headache"},
     user_conditions : {<<>>},
     user_medications : {<<>>, <<"warfarin">>},
     user_allergies : {<<>>},
     current_condition : {<<"nausea">>}]

NoFrame == [condition |-> "", found_herbs |-> {}, order |-> <<>>, results |-> <<>>]

\* one frame for all the calls, instead of one per call
SharedFrame(t) == 1

\* the frame that holds the locals of thread t's call
Local(t) == t

\* thread u is in the middle of a call
InCall(u) == threads[u].pc \notin {"start", "returned"}

\* thread t moves to pc p; overlapped records that it ran while another
\* thread was in the middle of its call
Step(t, p) ==
    [threads EXCEPT ![t].pc = p,
                    ![t].overlapped = @ \/ \E u \in Threads \ {t} : InCall(u)]

ConcurrentInit ==
    /\ EngineInit
    /\ user_profile = NoProfile
    /\ op = "init"
    /\ args = NoArgs
    /\ results = <<>>
    /\ global_warnings = <<>>
    /\ verified_herbs = <<>>
    /\ validation_section = <<>>
    /\ final_response = <<>>
    /\ score_in = NoScoreInput
    /\ score_out = <<>>
    /\ UtilityIdle
    /\ threads \in [Threads -> [pc : {"start"}, args : ThreadArgs, overlapped : {FALSE},
                                ret : {<<>>}]]
    /\ frames = [t \in Threads |-> NoFrame]
    /\ ServicesIdle

\* what no step of a thread touches
ThreadFrame ==
    UNCHANGED <<engine, user_profile, op, args, results, global_warnings, verified_herbs,
                validation_section, final_response, score_in, score_out, utility, services>>

\* entry of verify_response: the defaults, the condition, found_herbs = []
ThreadBegin(t) ==
    /\ threads[t].pc = "start"
    /\ frames' = [frames EXCEPT ![Local(t)] =
                    [condition |-> ActiveCondition(threads[t].args.query,
                                                   threads[t].args.current_condition),
                     found_herbs |-> {}, order |-> <<>>, results |-> <<>>]]
    /\ threads' = Step(t, "scan")
    /\ ThreadFrame

\* "for herb in self.known_herbs: ... found_herbs.append(herb)"
ThreadScan(t) ==
    /\ threads[t].pc = "scan"
    /\ frames' = [frames EXCEPT ![Local(t)].found_herbs =
                    FoundHerbs(threads[t].args.llm_response, threads[t].args.user_allergies)]
    /\ threads' = Step(t, "scanned")
    /\ ThreadFrame

\* "results = []; for herb in set(found_herbs):" the set is built once
ThreadStartLoop(t) ==
    /\ threads[t].pc = "scanned"
    /\ \E order \in Orderings(frames[Local(t)].found_herbs) :
        frames' = [frames EXCEPT ![Local(t)].order = order, ![Local(t)].results = <<>>]
    /\ threads' = Step(t, "verifying")
    /\ ThreadFrame

\* one turn of the loop: "result = self._verify_single_claim(...);
\* results.append(result)"
ThreadVerifyNext(t) ==
    /\ threads[t].pc = "verifying"
    /\ Len(frames[Local(t)].results) < Len(frames[Local(t)].order)
    /\ frames' = [frames EXCEPT ![Local(t)].results =
                    Append(@, VerifySingleClaim(
                                 frames[Local(t)].order[Len(frames[Local(t)].results) + 1],
                                 frames[Local(t)].condition,
                                 threads[t].args.user_conditions,
                                 threads[t].args.user_medications))]
    /\ threads' = Step(t, "verifying")
    /\ ThreadFrame

\* "global_warnings = self._generate_global_warnings(results);
\*  return results, global_warnings"
ThreadReturn(t) ==
    /\ threads[t].pc = "verifying"
    /\ Len(frames[Local(t)].results) >= Len(frames[Local(t)].order)
    /\ threads' = [Step(t, "returned") EXCEPT ![t].ret = <<ReturnResults(frames[Local(t)].results)>>]
    /\ UNCHANGED frames
    /\ ThreadFrame

ConcurrentNext ==
    \E t \in Threads :
        \/ ThreadBegin(t)
        \/ ThreadScan(t)
        \/ ThreadStartLoop(t)
        \/ ThreadVerifyNext(t)
        \/ ThreadReturn(t)

SpecConcurrent == ConcurrentInit /\ [][ConcurrentNext]_vars

\* check_single_interaction on its own: the herb and the medication are
\* drawn at the start
SingleHerbs == {"Ginger", "TURMERIC", "chamomile", "honey", "kava", ""}

SingleMedications ==
    {"Warfarin", "warfarin sodium 5mg", "blood", "Blood thinners", "thin", "paracetamol", "",
     "ASPIRIN 75", "sedatives", "metformin"}

InteractionInit ==
    /\ EngineInit
    /\ user_profile = NoProfile
    /\ op = "init"
    /\ args = NoArgs
    /\ results = <<>>
    /\ global_warnings = <<>>
    /\ verified_herbs = <<>>
    /\ validation_section = <<>>
    /\ final_response = <<>>
    /\ score_in = NoScoreInput
    /\ score_out = <<>>
    /\ identified = <<>>
    /\ interaction_args \in {<<[herb |-> herb, medication |-> medication]>> :
                                herb \in SingleHerbs, medication \in SingleMedications}
    /\ interaction_warning = <<>>
    /\ evidence_list = <<>>
    /\ herb_known = <<>>
    /\ claim_args = <<>>
    /\ claim_result = <<>>
    /\ remembered = <<>>
    /\ ConcurrentIdle
    /\ ServicesIdle

CheckDrawnInteraction ==
    /\ op = "init"
    /\ CheckSingleInteractionCall(interaction_args[1].herb, interaction_args[1].medication)

InteractionNext == CheckDrawnInteraction

SpecInteraction == InteractionInit /\ [][InteractionNext]_vars

\* _verify_single_claim on its own: the herb is one verify_response found
\* (a lowercase entry of the registry), the condition, the user's conditions
\* and medications are drawn at the start
ClaimHerbs == {"ginger", "turmeric", "chamomile", "peppermint", "honey"}

ClaimConditions == {"nausea", "cold", "eye strain", "general health"}

\* the user's conditions of a direct call: the profile's, one that no rule
\* blocks and one that only a rule of another herb blocks
ClaimConditionPool == ConditionPool \cup {"Asthma", "Liver Disease"}

ClaimInputs ==
    [herb_name : ClaimHerbs,
     condition : ClaimConditions,
     user_conditions : DistinctSeqs(ClaimConditionPool, MaxConds),
     user_medications : DistinctSeqs(MedicationPool, MaxMeds)]

ClaimInit ==
    /\ EngineInit
    /\ user_profile = NoProfile
    /\ op = "init"
    /\ args = NoArgs
    /\ results = <<>>
    /\ global_warnings = <<>>
    /\ verified_herbs = <<>>
    /\ validation_section = <<>>
    /\ final_response = <<>>
    /\ score_in = NoScoreInput
    /\ score_out = <<>>
    /\ identified = <<>>
    /\ interaction_args = <<>>
    /\ interaction_warning = <<>>
    /\ evidence_list = <<>>
    /\ herb_known = <<>>
    /\ claim_args \in {<<a>> : a \in ClaimInputs}
    /\ claim_result = <<>>
    /\ remembered = <<>>
    /\ ConcurrentIdle
    /\ ServicesIdle

\* self._verify_single_claim(**claim_args)
VerifySingleClaimCall ==
    /\ claim_result = <<>>
    /\ claim_result' = <<VerifySingleClaim(claim_args[1].herb_name, claim_args[1].condition,
                                           claim_args[1].user_conditions,
                                           claim_args[1].user_medications)>>
    /\ UNCHANGED <<engine, user_profile, op, args, results, global_warnings, verified_herbs,
                   validation_section, final_response, score_in, score_out, identified,
                   interaction_args, interaction_warning, evidence_list, herb_known,
                   claim_args, remembered, concurrent, services>>

ClaimNext == VerifySingleClaimCall

SpecClaim == ClaimInit /\ [][ClaimNext]_vars

\* The scorer on its own: the inputs are drawn at the start and the score
\* is computed once
ScoreInit ==
    /\ EngineInit
    /\ user_profile = NoProfile
    /\ op = "init"
    /\ args = NoArgs
    /\ results = <<>>
    /\ global_warnings = <<>>
    /\ verified_herbs = <<>>
    /\ validation_section = <<>>
    /\ final_response = <<>>
    /\ score_in \in ScoreInputs
    /\ score_out = <<>>
    /\ UtilityIdle
    /\ ConcurrentIdle
    /\ ServicesIdle

ApplyConfidenceScore ==
    /\ score_out = <<>>
    /\ score_out' = <<ConfidenceScore(score_in.tier, score_in.pubmed_count,
                                      score_in.has_mechanism, score_in.warning_count)>>
    /\ UNCHANGED <<engine, user_profile, op, args, results, global_warnings, verified_herbs,
                   validation_section, final_response, score_in, utility, concurrent, services>>

ScoreNext == ApplyConfidenceScore

SpecScore == ScoreInit /\ [][ScoreNext]_vars

(***************************************************************************)
(* Properties                                                              *)
(***************************************************************************)
(***************************************************************************)
(* The knowledge graph repositories (knowledge_graph/models.py)            *)
(***************************************************************************)
\* the names handed to create and get_by_name
HerbNames == {"Ginger", "ginger", "Tulsi"}
DiseaseNames == {"Headache", "HEADACHE", "Cold"}

\* HerbRepository.create / DiseaseRepository.create: the id is len(data) + 1
\* and the record is stored under it; the name is stored as passed
CreateIn(data, name) ==
    LET new_id == Cardinality(DOMAIN data) + 1
    IN [k \in DOMAIN data \cup {new_id} |->
           IF k = new_id THEN [id |-> new_id, name |-> name] ELSE data[k]]

\* "for herb in HERBS_DATA.values(): if herb['name'].lower() == name.lower():
\* return herb", then "return None": the dict is walked in insertion order,
\* which is the order of the ids that create hands out
RECURSIVE GetByNameFrom(_, _, _)
GetByNameFrom(data, name_lower, k) ==
    IF k > Cardinality(DOMAIN data) THEN <<>>
    ELSE IF lower(data[k].name) = name_lower THEN <<data[k]>>
    ELSE GetByNameFrom(data, name_lower, k + 1)

GetByName(data, name) == GetByNameFrom(data, lower(name), 1)

RepositoryInit ==
    /\ EngineInit
    /\ user_profile = NoProfile
    /\ op = "init"
    /\ args = NoArgs
    /\ results = <<>>
    /\ global_warnings = <<>>
    /\ verified_herbs = <<>>
    /\ validation_section = <<>>
    /\ final_response = <<>>
    /\ score_in = NoScoreInput
    /\ score_out = <<>>
    /\ UtilityIdle
    /\ ConcurrentIdle
    /\ ServicesIdle

\* what no repository call touches
RepositoryFrame ==
    UNCHANGED <<engine, user_profile, op, args, results, global_warnings, verified_herbs,
                validation_section, final_response, score_in, score_out, utility, concurrent,
                pipeline>>

\* HerbRepository.create(name, ...)
HerbRepositoryCreate ==
    \E name \in HerbNames :
        /\ Cardinality(DOMAIN HERBS_DATA) < MaxRecords
        /\ HERBS_DATA' = CreateIn(HERBS_DATA, name)
        /\ lookup' = <<>>
        /\ UNCHANGED <<DISEASES_DATA, conversation>>
        /\ RepositoryFrame

\* DiseaseRepository.create(name, ...)
DiseaseRepositoryCreate ==
    \E name \in DiseaseNames :
        /\ Cardinality(DOMAIN DISEASES_DATA) < MaxRecords
        /\ DISEASES_DATA' = CreateIn(DISEASES_DATA, name)
        /\ lookup' = <<>>
        /\ UNCHANGED <<HERBS_DATA, conversation>>
        /\ RepositoryFrame

\* HerbRepository.get_by_name(name)
HerbRepositoryGetByName ==
    \E name \in HerbNames :
        /\ lookup' = <<[repository |-> "herb", name |-> name, ret |-> GetByName(HERBS_DATA, name)]>>
        /\ UNCHANGED <<HERBS_DATA, DISEASES_DATA, conversation>>
        /\ RepositoryFrame

\* DiseaseRepository.get_by_name(name)
DiseaseRepositoryGetByName ==
    \E name \in DiseaseNames :
        /\ lookup' = <<[repository |-> "disease", name |-> name,
                        ret |-> GetByName(DISEASES_DATA, name)]>>
        /\ UNCHANGED <<HERBS_DATA, DISEASES_DATA, conversation>>
        /\ RepositoryFrame

RepositoryNext ==
    \/ HerbRepositoryCreate
    \/ DiseaseRepositoryCreate
    \/ HerbRepositoryGetByName
    \/ DiseaseRepositoryGetByName

SpecRepository == RepositoryInit /\ [][RepositoryNext]_vars

(***************************************************************************)
(* The conversation manager (conversation/manager.py)                      *)
(***************************************************************************)
\* ConversationManager.MAX_HISTORY
MAX_HISTORY == 20

\* _get_cache_key(user_id, key_type): one key per user and key type
CacheKey(user_id, key_type) == <<user_id, key_type>>

\* _get_data: self._memory_store.get(cache_key, {}); the Django cache holds
\* what _set_data wrote last or nothing, and the memory copy is read then
GetData(store, user_id, key_type) ==
    IF CacheKey(user_id, key_type) \in DOMAIN store
    THEN store[CacheKey(user_id, key_type)]
    ELSE EmptyDict

\* _set_data: self._memory_store[cache_key] = data
SetData(store, user_id, key_type, data) ==
    [k \in DOMAIN store \cup {CacheKey(user_id, key_type)} |->
        IF k = CacheKey(user_id, key_type) THEN data ELSE store[k]]

\* history['messages'][-MAX_HISTORY:]
LastMessages(messages, n) ==
    IF Len(messages) > n THEN SubSeq(messages, Len(messages) - n + 1, Len(messages)) ELSE messages

\* add_message without the trim to MAX_HISTORY
AddMessageUntrimmed(store, user_id, role, content) ==
    LET history == GetData(store, user_id, "history")
        messages == IF "messages" \in DOMAIN history THEN history.messages ELSE <<>>
    IN SetData(store, user_id, "history",
               [messages |-> Append(messages, [role |-> role, content |-> content])])

\* ConversationManager.add_message: the message is appended and the list is
\* cut to its last MAX_HISTORY entries; role and content are the fields of
\* a message kept here
AddMessage(store, user_id, role, content) ==
    LET history == GetData(store, user_id, "history")
        messages == IF "messages" \in DOMAIN history THEN history.messages ELSE <<>>
        appended == Append(messages, [role |-> role, content |-> content])
    IN SetData(store, user_id, "history",
               [messages |-> IF Len(appended) > MAX_HISTORY
                             THEN LastMessages(appended, MAX_HISTORY) ELSE appended])

\* ConversationManager.get_history: history.get('messages', [])
GetHistory(store, user_id) ==
    LET history == GetData(store, user_id, "history")
    IN IF "messages" \in DOMAIN history THEN history.messages ELSE <<>>

\* the texts of a conversation: message n of a user has the text n, and the
\* roles alternate as in a turn of the pipeline (the user's query, then the
\* assistant's answer)
NextRole(n) == IF n % 2 = 1 THEN "user" ELSE "assistant"

ManagerInit ==
    /\ EngineInit
    /\ user_profile = NoProfile
    /\ op = "init"
    /\ args = NoArgs
    /\ results = <<>>
    /\ global_warnings = <<>>
    /\ verified_herbs = <<>>
    /\ validation_section = <<>>
    /\ final_response = <<>>
    /\ score_in = NoScoreInput
    /\ score_out = <<>>
    /\ UtilityIdle
    /\ ConcurrentIdle
    /\ ServicesIdle

\* what no call on the conversation manager touches
ManagerFrame ==
    UNCHANGED <<engine, user_profile, op, args, results, global_warnings, verified_herbs,
                validation_section, final_response, score_in, score_out, utility, concurrent,
                repository, pipeline>>

\* conversation_manager.add_message(user_id, role, content)
AddMessageCall(user_id) ==
    /\ Len(sent[user_id]) < MaxMessages
    /\ \E n \in {Len(sent[user_id]) + 1} :
        /\ memory_store' = AddMessage(memory_store, user_id, NextRole(n), n)
        /\ sent' = [sent EXCEPT ![user_id] = Append(@, [role |-> NextRole(n), content |-> n])]
    /\ UNCHANGED <<clock, subject_calls, latest_detected>>
    /\ ManagerFrame

HistoryNext == \E user_id \in Users : AddMessageCall(user_id)

SpecHistory == ManagerInit /\ [][HistoryNext]_vars

(***************************************************************************)
(* Subject context of the conversation manager                             *)
(***************************************************************************)
\* ConversationManager.SUBJECT_CONTEXT_TIMEOUT, in minutes
SUBJECT_CONTEXT_TIMEOUT == 10

\* the minutes that pass between two looks at the clock
TickMinutes == 6

\* the subjects a user asks for
Relationships == {"child", "mother"}

\* update_subject_context: the dict stored under 'subject_context'; the
\* relationship stands for the fields that describe the subject
UpdateSubjectContext(store, user_id, asking_for_other, relationship, now) ==
    SetData(store, user_id, "subject_context",
            [asking_for_other |-> asking_for_other, relationship |-> relationship,
             timestamp |-> now])

\* get_subject_context: {} when nothing is stored, when the stored subject
\* is the user, and when the entry is older than the timeout
GetSubjectContext(store, user_id, now) ==
    LET subject_data == GetData(store, user_id, "subject_context")
    IN IF subject_data = EmptyDict THEN EmptyDict
       ELSE IF ~subject_data.asking_for_other THEN EmptyDict
       ELSE IF now - subject_data.timestamp > SUBJECT_CONTEXT_TIMEOUT THEN EmptyDict
       ELSE subject_data

\* clear_subject_context: what is stored under 'subject' is kept as
\* 'previous_subject' and 'subject' is set to {}
ClearSubjectContext(store, user_id) ==
    LET current_context == GetData(store, user_id, "subject")
        kept == IF current_context # EmptyDict
                THEN SetData(store, user_id, "previous_subject", current_context)
                ELSE store
    IN SetData(kept, user_id, "subject", EmptyDict)

\* conversation_manager.update_subject_context(user_id, asking_for_other, ...)
UpdateSubjectContextCall(user_id) ==
    \E asking_for_other \in BOOLEAN, relationship \in Relationships :
        /\ memory_store' = UpdateSubjectContext(memory_store, user_id, asking_for_other,
                                                relationship, clock)
        /\ subject_calls' = [subject_calls EXCEPT
                                ![user_id] = IF asking_for_other THEN "other" ELSE "self"]
        /\ UNCHANGED <<sent, clock, latest_detected>>
        /\ ManagerFrame

\* conversation_manager.clear_subject_context(user_id)
ClearSubjectContextCall(user_id) ==
    /\ memory_store' = ClearSubjectContext(memory_store, user_id)
    /\ subject_calls' = [subject_calls EXCEPT
                            ![user_id] = IF @ = "other" THEN "cleared" ELSE @]
    /\ UNCHANGED <<sent, clock, latest_detected>>
    /\ ManagerFrame

\* time passes
Tick ==
    /\ clock < MaxTicks * TickMinutes
    /\ clock' = clock + TickMinutes
    /\ UNCHANGED <<memory_store, sent, subject_calls, latest_detected>>
    /\ ManagerFrame

SubjectNext ==
    \/ \E user_id \in Users : UpdateSubjectContextCall(user_id)
    \/ \E user_id \in Users : ClearSubjectContextCall(user_id)
    \/ Tick

SpecSubject == ManagerInit /\ [][SubjectNext]_vars

(***************************************************************************)
(* Tracked context of the conversation manager                             *)
(***************************************************************************)
\* the entries of the keyword tables kept in the model, in the order of
\* their declaration
REMOVAL_KEYWORDS == <<"stopped taking", "no longer take", "stopped", "quit">>

ADDITION_KEYWORDS == <<"i take", "i am taking", "taking", "prescribed">>

CONDITION_KEYWORDS ==
    << <<"headache", <<"headache", "head hurts", "migraine">> >>,
       <<"fever", <<"fever", "temperature">> >>,
       <<"cold", <<"cold", "runny nose", "flu">> >>,
       <<"nausea", <<"nausea", "nauseous">> >> >>

HERB_KEYWORDS == <<"ginger", "turmeric", "peppermint", "mint", "honey", "chamomile">>

MEDICATION_KEYWORDS ==
    << <<"aspirin", <<"aspirin", "disprin", "ecosprin">> >>,
       <<"ibuprofen", <<"ibuprofen", "advil">> >>,
       <<"warfarin", <<"warfarin", "coumadin">> >>,
       <<"blood thinner", <<"blood thinner", "blood thinners", "anticoagulant">> >> >>

\* self_reference_patterns of should_clear_subject_context
SelfReferencePatterns == <<"i have", "i am", "i feel", "my head", "help me", "for me">>

\* any(kw in s for kw in keywords)
AnyIn(keywords, s) == \E i \in 1..Len(keywords) : Contains(keywords[i], s)

\* the first keyword found in s, the one at which the loop breaks
FirstIn(keywords, s) ==
    keywords[CHOOSE i \in 1..Len(keywords) :
                /\ Contains(keywords[i], s)
                /\ \A j \in 1..(i - 1) : ~Contains(keywords[j], s)]

\* "x in list"
InList(x, list) == \E i \in 1..Len(list) : list[i] = x

\* list.remove(x): the first occurrence is taken out
RECURSIVE RemoveItem(_, _)
RemoveItem(list, x) ==
    IF list = <<>> THEN <<>>
    ELSE IF Head(list) = x THEN Tail(list)
    ELSE <<Head(list)>> \o RemoveItem(Tail(list), x)

\* should_clear_subject_context
ShouldClearSubjectContext(query) == AnyIn(SelfReferencePatterns, lower(query))

\* the removal loop over MEDICATION_KEYWORDS
RECURSIVE RemoveMedications(_, _, _, _)
RemoveMedications(query_lower, medications, removed, i) ==
    IF i > Len(MEDICATION_KEYWORDS) THEN [list |-> medications, changes |-> removed]
    ELSE IF AnyIn(MEDICATION_KEYWORDS[i][2], query_lower)
            /\ InList(MEDICATION_KEYWORDS[i][1], medications)
    THEN RemoveMedications(query_lower, RemoveItem(medications, MEDICATION_KEYWORDS[i][1]),
                           Append(removed, "medication:  " \o MEDICATION_KEYWORDS[i][1]), i + 1)
    ELSE RemoveMedications(query_lower, medications, removed, i + 1)

\* the removal loop over HERB_KEYWORDS
RECURSIVE RemoveHerbs(_, _, _, _)
RemoveHerbs(query_lower, herbs, removed, i) ==
    IF i > Len(HERB_KEYWORDS) THEN [list |-> herbs, changes |-> removed]
    ELSE IF Contains(HERB_KEYWORDS[i], query_lower) /\ InList(HERB_KEYWORDS[i], herbs)
    THEN RemoveHerbs(query_lower, RemoveItem(herbs, HERB_KEYWORDS[i]),
                     Append(removed, "herb: " \o HERB_KEYWORDS[i]), i + 1)
    ELSE RemoveHerbs(query_lower, herbs, removed, i + 1)

\* the addition loop over CONDITION_KEYWORDS
RECURSIVE AddConditions(_, _, _, _)
AddConditions(query_lower, conditions, added, i) ==
    IF i > Len(CONDITION_KEYWORDS) THEN [list |-> conditions, changes |-> added]
    ELSE IF AnyIn(CONDITION_KEYWORDS[i][2], query_lower)
            /\ ~InList(CONDITION_KEYWORDS[i][1], conditions)
    THEN AddConditions(query_lower, Append(conditions, CONDITION_KEYWORDS[i][1]),
                       Append(added, "condition: " \o CONDITION_KEYWORDS[i][1]), i + 1)
    ELSE AddConditions(query_lower, conditions, added, i + 1)

\* the addition loop over HERB_KEYWORDS
RECURSIVE AddHerbs(_, _, _, _)
AddHerbs(query_lower, herbs, added, i) ==
    IF i > Len(HERB_KEYWORDS) THEN [list |-> herbs, changes |-> added]
    ELSE IF Contains(HERB_KEYWORDS[i], query_lower) /\ ~InList(HERB_KEYWORDS[i], herbs)
    THEN AddHerbs(query_lower, Append(herbs, HERB_KEYWORDS[i]),
                  Append(added, "herb: " \o HERB_KEYWORDS[i]), i + 1)
    ELSE AddHerbs(query_lower, herbs, added, i + 1)

\* the addition loop over MEDICATION_KEYWORDS: the first keyword found
\* decides, together with is_addition_context, whether the name is added
RECURSIVE AddMedications(_, _, _, _, _)
AddMedications(query_lower, is_addition_context, medications, added, i) ==
    IF i > Len(MEDICATION_KEYWORDS) THEN [list |-> medications, changes |-> added]
    ELSE IF /\ AnyIn(MEDICATION_KEYWORDS[i][2], query_lower)
            /\ (is_addition_context \/ Len(FirstIn(MEDICATION_KEYWORDS[i][2], query_lower)) > 3)
            /\ ~InList(MEDICATION_KEYWORDS[i][1], medications)
    THEN AddMedications(query_lower, is_addition_context,
                        Append(medications, MEDICATION_KEYWORDS[i][1]),
                        Append(added, "medication: " \o MEDICATION_KEYWORDS[i][1]), i + 1)
    ELSE AddMedications(query_lower, is_addition_context, medications, added, i + 1)

\* {'conditions': [], 'herbs': [], 'medications': []}
EmptyContext == [conditions |-> <<>>, herbs |-> <<>>, medications |-> <<>>]

\* the stored context, or the empty one: "if not context: context = {...}"
StoredContext(store, user_id) ==
    IF GetData(store, user_id, "context") = EmptyDict THEN EmptyContext
    ELSE [conditions |-> GetData(store, user_id, "context").conditions,
          herbs |-> GetData(store, user_id, "context").herbs,
          medications |-> GetData(store, user_id, "context").medications]

\* update_context after the subject context was dealt with: the removals
\* in a removal context, the additions otherwise, the timestamp, the save
UpdateStoredContext(store, user_id, query_lower, context, now) ==
    IF AnyIn(REMOVAL_KEYWORDS, query_lower)
    THEN LET meds == RemoveMedications(query_lower, context.medications, <<>>, 1)
             herbs == RemoveHerbs(query_lower, context.herbs, meds.changes, 1)
         IN [store |-> SetData(store, user_id, "context",
                               [conditions |-> context.conditions, herbs |-> herbs.list,
                                medications |-> meds.list, last_updated |-> now]),
             changes |-> [added |-> <<>>, removed |-> herbs.changes]]
    ELSE LET conds == AddConditions(query_lower, context.conditions, <<>>, 1)
             herbs == AddHerbs(query_lower, context.herbs, conds.changes, 1)
             meds == AddMedications(query_lower, AnyIn(ADDITION_KEYWORDS, query_lower),
                                    context.medications, herbs.changes, 1)
         IN [store |-> SetData(store, user_id, "context",
                               [conditions |-> conds.list, herbs |-> herbs.list,
                                medications |-> meds.list, last_updated |-> now]),
             changes |-> [added |-> meds.changes, removed |-> <<>>]]

\* ConversationManager.update_context: the new store and the changes returned
UpdateContext(store, user_id, query, now) ==
    LET cleared == IF ShouldClearSubjectContext(query)
                      /\ GetSubjectContext(store, user_id, now) # EmptyDict
                   THEN ClearSubjectContext(store, user_id)
                   ELSE store
    IN UpdateStoredContext(cleared, user_id, lower(query), StoredContext(cleared, user_id), now)

\* ConversationManager.get_context: the three lists and, under 'subject',
\* the subject fields merged in when a subject context is returned
GetContext(store, user_id, now) ==
    [conditions |-> StoredContext(store, user_id).conditions,
     herbs |-> StoredContext(store, user_id).herbs,
     medications |-> StoredContext(store, user_id).medications,
     subject |-> GetSubjectContext(store, user_id, now)]

\* ConversationManager.get_current_condition: conditions[-1], <<>> for None
GetCurrentCondition(store, user_id, now) ==
    IF Len(GetContext(store, user_id, now).conditions) > 0
    THEN <<Last(GetContext(store, user_id, now).conditions)>>
    ELSE <<>>

\* the conditions the addition loop finds in a query; none in a removal context
DetectedConditions(query_lower) ==
    IF AnyIn(REMOVAL_KEYWORDS, query_lower) THEN {}
    ELSE {CONDITION_KEYWORDS[i][1] : i \in {n \in 1..Len(CONDITION_KEYWORDS) :
                                               AnyIn(CONDITION_KEYWORDS[n][2], query_lower)}}

\* the queries of a conversation
ContextQueries ==
    {"I have a headache", "Fever and a runny nose since morning", "my MIGRAINE is back",
     "I take aspirin", "I stopped taking aspirin, is honey good for a cold"}

\* conversation_manager.update_context(user_id, query)
UpdateContextCall(user_id) ==
    \E query \in ContextQueries :
        \E ret \in {UpdateContext(memory_store, user_id, query, clock)} :
          \E detected \in {DetectedConditions(lower(query))} :
            /\ memory_store' = ret.store
            /\ latest_detected' =
                  IF detected = {} THEN latest_detected
                  ELSE [latest_detected EXCEPT
                          ![user_id] = [conditions |-> detected,
                                        added |-> {c \in detected :
                                                    InList("condition: " \o c, ret.changes.added)}]]
            /\ UNCHANGED <<sent, clock, subject_calls>>
            /\ ManagerFrame

ContextNext == \E user_id \in Users : UpdateContextCall(user_id)

SpecContext == ManagerInit /\ [][ContextNext]_vars

(***************************************************************************)
(* execute_rag_pipeline (rag_service/execute_rag.py)                       *)
(***************************************************************************)
\* the turns of a conversation followed
MaxTurns == 2

\* the entries of emergency_keywords kept in the model, in the order of
\* their declaration
emergency_keywords ==
    << <<"cardiac_arrest", <<"cpr", "not breathing", "stopped breathing">> >>,
       <<"choking", <<"choking", "cant breathe", "heimlich">> >>,
       <<"cardiac", <<"heart attack", "chest pain", "chest pressure">> >> >>

\* the loop of check_emergency: the type of the first entry one of whose
\* keywords is in the text, <<>> for None
RECURSIVE CheckEmergencyFrom(_, _)
CheckEmergencyFrom(text, i) ==
    IF i > Len(emergency_keywords) THEN <<>>
    ELSE IF AnyIn(emergency_keywords[i][2], text) THEN <<emergency_keywords[i][1]>>
    ELSE CheckEmergencyFrom(text, i + 1)

\* check_emergency without "query_lower = query.lower()"
CheckEmergencyCaseSensitive(query) == CheckEmergencyFrom(query, 1)

\* check_emergency
CheckEmergency(query) == CheckEmergencyFrom(lower(query), 1)

\* EMERGENCY_RESPONSES: the headline of each text
EMERGENCY_RESPONSES ==
    ( "cardiac_arrest" :> "**EMERGENCY - CARDIAC ARREST / NOT BREATHING**" ) @@
    ( "choking" :> "**EMERGENCY - CHOKING**" ) @@
    ( "cardiac" :> "**EMERGENCY - POSSIBLE HEART ATTACK**" )

\* get_emergency_response
GetEmergencyResponse(emergency_type) ==
    IF emergency_type \in DOMAIN EMERGENCY_RESPONSES THEN EMERGENCY_RESPONSES[emergency_type]
    ELSE "**EMERGENCY DETECTED**"

\* the entries of the tables of extract_entities kept in the model
condition_keywords ==
    << <<"headache", <<"headache", "head hurts", "head pain", "migraine">> >>,
       <<"fever", <<"fever", "temperature", "feverish">> >>,
       <<"cold", <<"cold", "runny nose", "sneezing">> >>,
       <<"nausea", <<"nausea", "nauseous", "feeling sick">> >> >>

herb_list == <<"ginger", "turmeric", "peppermint", "honey", "chamomile", "mint">>

medication_keywords ==
    << <<"aspirin", <<"aspirin", "disprin", "ecosprin">> >>,
       <<"ibuprofen", <<"ibuprofen", "advil", "motrin">> >>,
       <<"warfarin", <<"warfarin", "coumadin">> >>,
       <<"blood thinner", <<"blood thinner", "blood thinners", "anticoagulant">> >> >>

\* the names of the entries of a keyword table one of whose keywords is in
\* the text, in the order of the table
RECURSIVE MatchedNames(_, _, _)
MatchedNames(table, text, i) ==
    IF i > Len(table) THEN <<>>
    ELSE (IF AnyIn(table[i][2], text) THEN <<table[i][1]>> ELSE <<>>)
         \o MatchedNames(table, text, i + 1)

\* extract_entities
ExtractEntities(query) ==
    [conditions |-> MatchedNames(condition_keywords, lower(query), 1),
     herbs |-> SelectSeq(herb_list, LAMBDA herb : Contains(herb, lower(query))),
     medications |-> MatchedNames(medication_keywords, lower(query), 1)]

\* str.replace(old, new)
RECURSIVE Replace(_, _, _)
Replace(s, old, new) ==
    IF Len(s) < Len(old) THEN s
    ELSE IF SubSeq(s, 1, Len(old)) = old
    THEN new \o Replace(SubSeq(s, Len(old) + 1, Len(s)), old, new)
    ELSE CharAt(s, 1) \o Replace(SubSeq(s, 2, Len(s)), old, new)

\* "[r.replace('medication: ', '').lower() for r in context_changes['removed']
\*   if 'medication:' in r]"
StoppedMedications(removed) ==
    LET named == SelectSeq(removed, LAMBDA r : Contains("medication:", r))
    IN [i \in 1..Len(named) |-> lower(Replace(named[i], "medication: ", ""))]

\* the elements of a list
Elements(list) == {list[i] : i \in 1..Len(list)}

\* "stopped in text.lower()" for one of the stopped medications
NamesStopped(text, stopped_medications) ==
    \E i \in 1..Len(stopped_medications) : Contains(stopped_medications[i], lower(text))

\* STEP 9, "Filter global warnings"
FilterGlobalWarnings(gw, stopped_medications) ==
    SelectSeq(gw, LAMBDA warning : ~NamesStopped(warning, stopped_medications))

\* STEP 9, "Filter interaction notes from results": the note of a result is
\* set to None, its warnings and its score are left as they are
FilterInteractionNotes(rs, stopped_medications) ==
    [i \in 1..Len(rs) |->
        IF /\ Len(rs[i].interaction_note) > 0
           /\ rs[i].interaction_note[1] # ""
           /\ NamesStopped(rs[i].interaction_note[1], stopped_medications)
        THEN [rs[i] EXCEPT !.interaction_note = <<>>]
        ELSE rs[i]]

\* STEP 9, "for herb in verified_herbs: update_context(email_id, f'recommended {herb}')"
RECURSIVE TrackVerifiedHerbs(_, _, _, _, _)
TrackVerifiedHerbs(store, email_id, herbs, now, i) ==
    IF i > Len(herbs) THEN store
    ELSE TrackVerifiedHerbs(UpdateContext(store, email_id, "recommended " \o herbs[i], now).store,
                            email_id, herbs, now, i + 1)

\* STEP 2.5, "if should_clear_subject_context(original_query): ... if
\* previous_subject.get('asking_for_other'): clear_subject_context(email_id)"
ClearedForSelf(store, email_id, query, now) ==
    IF ShouldClearSubjectContext(query) /\ GetSubjectContext(store, email_id, now) # EmptyDict
    THEN ClearSubjectContext(store, email_id)
    ELSE store

\* STEP 3: update_context, add_message and get_context
UpdateConversation(store, email_id, query, now) ==
    LET updated == UpdateContext(ClearedForSelf(store, email_id, query, now), email_id, query, now)
        stored == AddMessage(updated.store, email_id, "user", query)
    IN [store |-> stored, context_changes |-> updated.changes,
        accumulated_context |-> GetContext(stored, email_id, now)]

\* STEP 4, the values current_condition can get for a user asking for
\* themself: the first condition of the query, else the last element of
\* list(set(...)) of the accumulated conditions, else None
CurrentConditionChoices(current_entities, accumulated_context) ==
    IF Len(current_entities.conditions) > 0 THEN {<<current_entities.conditions[1]>>}
    ELSE IF Len(accumulated_context.conditions) > 0
    THEN {<<c>> : c \in Elements(accumulated_context.conditions)}
    ELSE {<<>>}

\* STEP 4, the orders list(set(...)) can give all_medications
AllMedicationsChoices(current_entities, accumulated_context, profile_medications) ==
    Orderings(Elements(accumulated_context.medications \o current_entities.medications
                       \o profile_medications))

\* the profiles of the user of the turns: no allergies, so that STEP 8.5
\* leaves the response as generated
TurnProfiles ==
    [medical_conditions : {<<>>},
     current_medications : {<<>>} \cup {<<m>> : m \in TurnMedications},
     allergies : {<<>>}]

\* the user whose turns are followed
TurnUsers == {"asha@example.com"}

\* the steps after STEP 1 the model keeps track of
TurnSteps == {"update_context", "retrieval", "generation", "verification"}

TurnInit ==
    /\ EngineInit
    /\ user_profile \in TurnProfiles
    /\ op = "init"
    /\ args = NoArgs
    /\ results = <<>>
    /\ global_warnings = <<>>
    /\ verified_herbs = <<>>
    /\ validation_section = <<>>
    /\ final_response = <<>>
    /\ score_in = NoScoreInput
    /\ score_out = <<>>
    /\ UtilityIdle
    /\ ConcurrentIdle
    /\ ServicesIdle

\* what a turn leaves alone
TurnFrame ==
    UNCHANGED <<engine, user_profile, score_in, score_out, utility, concurrent, repository,
                clock, subject_calls>>

\* STEP 1 when check_emergency returned a type: the emergency response is
\* returned and nothing else is done
EmergencyReturn(email_id, query, emergency_type) ==
    /\ op' = "emergency"
    /\ turn' = [n |-> turn.n + 1, email_id |-> email_id, query |-> query,
                emergency_type |-> <<emergency_type>>, steps |-> {},
                removed |-> <<>>, stopped_medications |-> <<>>,
                accumulated_medications |-> <<>>]
    /\ args' = NoArgs
    /\ results' = <<>>
    /\ global_warnings' = <<>>
    /\ verified_herbs' = <<>>
    /\ validation_section' = <<>>
    /\ final_response' = <<GetEmergencyResponse(emergency_type)>>
    /\ UNCHANGED <<memory_store, sent, latest_detected>>
    /\ TurnFrame

\* STEP 2 to STEP 9 for a user asking for themself, with the response the
\* LLM generated
ServeQuery(email_id, query, llm_response) ==
    \E conv \in {UpdateConversation(memory_store, email_id, query, clock)} :
     \E current_entities \in {ExtractEntities(query)} :
      \E stopped_medications \in {StoppedMedications(conv.context_changes.removed)} :
       \E all_medications \in AllMedicationsChoices(current_entities, conv.accumulated_context,
                                                    user_profile.current_medications) :
        \E current_condition \in CurrentConditionChoices(current_entities,
                                                         conv.accumulated_context) :
         \E a \in {[llm_response |-> llm_response, query |-> query,
                    user_conditions |-> user_profile.medical_conditions,
                    user_medications |-> all_medications,
                    user_allergies |-> user_profile.allergies,
                    current_condition |-> current_condition]} :
          \E order \in Orderings(FoundHerbs(llm_response, user_profile.allergies)) :
           \E ret \in {VerifyResponse(a, order)} :
            \E filtered \in {IF Len(stopped_medications) > 0
                             THEN [results |-> FilterInteractionNotes(ret.results,
                                                                      stopped_medications),
                                   global_warnings |-> FilterGlobalWarnings(ret.global_warnings,
                                                                            stopped_medications)]
                             ELSE ret} :
             \E section \in {ValidationSectionFor(filtered.results, filtered.global_warnings)} :
               /\ op' = "served"
               /\ turn' = [n |-> turn.n + 1, email_id |-> email_id, query |-> query,
                           emergency_type |-> <<>>, steps |-> TurnSteps,
                           removed |-> conv.context_changes.removed,
                           stopped_medications |-> stopped_medications,
                           accumulated_medications |-> conv.accumulated_context.medications]
               /\ args' = a
               /\ results' = filtered.results
               /\ global_warnings' = filtered.global_warnings
               /\ verified_herbs' = CollectVerifiedHerbs(ret.results)
               /\ validation_section' = section
               /\ final_response' = AppendValidationSection(llm_response, section)
               /\ memory_store' =
                     TrackVerifiedHerbs(AddMessage(conv.store, email_id, "assistant", llm_response),
                                        email_id, CollectVerifiedHerbs(ret.results), clock, 1)
               /\ sent' = [sent EXCEPT ![email_id] =
                             @ \o <<[role |-> "user", content |-> query],
                                    [role |-> "assistant", content |-> llm_response]>>]
               /\ latest_detected' =
                     IF DetectedConditions(lower(query)) = {} THEN latest_detected
                     ELSE [latest_detected EXCEPT
                             ![email_id] =
                                 [conditions |-> DetectedConditions(lower(query)),
                                  added |-> {c \in DetectedConditions(lower(query)) :
                                               InList("condition: " \o c,
                                                      conv.context_changes.added)}]]
               /\ TurnFrame

\* execute_rag_pipeline(query_in_english, ..., email_id, ..., user_profile)
ExecuteRagPipeline ==
    /\ turn.n < MaxTurns
    /\ \E email_id \in TurnUsers, query \in TurnQueries, llm_response \in TurnResponses :
        IF CheckEmergency(query) # <<>>
        THEN EmergencyReturn(email_id, query, CheckEmergency(query)[1])
        ELSE ServeQuery(email_id, query, llm_response)

TurnNext == ExecuteRagPipeline

SpecTurn == TurnInit /\ [][TurnNext]_vars

TypeOK == op \in {"init", "validated", "checked", "evidence", "known", "formatted",
                  "emergency", "served"}

\* verify_response has returned
Returned == op = "validated"

ResultHerbs == {results[i].herb_name : i \in 1..Len(results)}

\* the herbs the allergy list names, whatever the case of its entries
AllergyHerbs ==
    {h \in known_herbs : \E i \in 1..Len(args.user_allergies) : lower(args.user_allergies[i]) = h}

\* word occurs in text with no letter, digit or underscore right before or after
OccursAsWord(word, text) ==
    \E i \in 1..(Len(text) - Len(word) + 1) :
        /\ SubSeq(text, i, i + Len(word) - 1) = word
        /\ (i = 1 \/ ~IsWordChar(CharAt(text, i - 1)))
        /\ (i + Len(word) > Len(text) \/ ~IsWordChar(CharAt(text, i + Len(word))))

\* a medication of meds matches a critical or high drug key of the herb
CriticalOrHighMatch(herb, meds) ==
    /\ herb \in DOMAIN interactions_db
    /\ \E j \in 1..Len(meds) : \E k \in 1..Len(interactions_db[herb].interacts_with) :
        LET drug_key == interactions_db[herb].interacts_with[k][1]
            severity == interactions_db[herb].interacts_with[k][2]
        IN /\ severity \in {CRITICAL, HIGH}
           /\ (Contains(drug_key, lower(meds[j])) \/ Contains(lower(meds[j]), drug_key))

\* the warnings of r that the contraindication check produced
ContraindicationWarnings(r) ==
    {k \in 1..Len(r.warnings) :
        \E j \in 1..Len(args.user_conditions) :
            r.warnings[k] = ContraindicatedText(r.herb_name, args.user_conditions[j])}

\* the score of the same claim with no medications and no user conditions
UnpenalizedScore(r) == VerifySingleClaim(r.herb_name, r.condition, <<>>, <<>>).confidence_score

\* C1: no herb of the registry that the allergy list names (in any case)
\* is the herb of a returned result
C1_AllergyExclusion ==
    Returned => \A h \in AllergyHerbs : h \notin ResultHerbs

\* an allergy entry written in another case than the herb it names, the herb
\* mentioned in the response, and no result for it
C1_Witness ==
    /\ Returned
    /\ \E h \in AllergyHerbs :
        /\ OccursAsWord(h, lower(args.llm_response))
        /\ \A i \in 1..Len(args.user_allergies) : args.user_allergies[i] # h
        /\ h \notin ResultHerbs
    /\ Len(results) > 0

\* C2: a result is a hallucination exactly when the evidence store has no
\* entry for its herb and the active condition, and is_valid is the negation
C2_HallucinationFlag ==
    Returned =>
        \A i \in 1..Len(results) :
            /\ results[i].is_hallucination
                 <=> (<<results[i].herb_name, results[i].condition>> \notin DOMAIN evidence_db)
            /\ results[i].is_valid <=> ~results[i].is_hallucination

\* one call returns a verified and a hallucinated result, the hallucinated
\* herb having evidence for another condition
C2_Witness ==
    /\ Returned
    /\ \E i, j \in 1..Len(results) :
        /\ results[i].is_valid
        /\ results[j].is_hallucination
        /\ \E key \in DOMAIN evidence_db : key[1] = results[j].herb_name

BaseOfTier == <<90, 75, 55, 35, 15>>

\* base plus bonuses of the scorer's input, in tenths
UncappedTotal ==
    BaseOfTier[score_in.tier] + Min(3 * score_in.pubmed_count, 10)
        + (IF score_in.has_mechanism THEN 5 ELSE 0)

\* C3 as stated: the penalty is subtracted from the unclamped total and the
\* score is clamped to [1.0, 10.0] only at the end
C3_ClampOnlyAtEnd ==
    score_out # <<>> =>
        score_out[1] = Max(Min(UncappedTotal - 10 * score_in.warning_count, 100), 10)

\* C3 amended: base plus bonuses is capped at 10.0, the penalty of 1.0 per
\* warning is subtracted from the capped value, and the result is not below 1.0
C3_CapThenPenalty ==
    score_out # <<>> =>
        score_out[1] = Max(Min(UncappedTotal, 100) - 10 * score_in.warning_count, 10)

\* base plus bonuses exceeds 10.0 and there is a warning to pay for
C3_Witness ==
    /\ score_out # <<>>
    /\ UncappedTotal > 100
    /\ score_in.warning_count >= 1
    /\ score_out[1] = 100 - 10 * score_in.warning_count

\* C4: every returned result has a score between 1.0 and 10.0
C4_ScoreBounds ==
    Returned =>
        \A i \in 1..Len(results) :
            results[i].confidence_score >= 10 /\ results[i].confidence_score <= 100

\* a verified result whose warnings would take the score below 1.0, next to
\* which the call also returned a result with no warning at all
C4_Witness ==
    /\ Returned
    /\ \E i \in 1..Len(results) :
        /\ results[i].is_valid
        /\ UnpenalizedScore(results[i]) - 10 * Len(results[i].warnings) < 10
        /\ results[i].confidence_score = 10
    /\ \E i \in 1..Len(results) : Len(results[i].warnings) = 0

\* C5: a result without evidence entry has score 2.0 and label "Unverified"
\* whatever warnings it carries
C5_UnverifiedFlat ==
    Returned =>
        \A i \in 1..Len(results) :
            (<<results[i].herb_name, results[i].condition>> \notin DOMAIN evidence_db)
                => /\ results[i].confidence_score = 20
                   /\ results[i].evidence_tier_label = "Unverified"

\* an unverified result that carries interaction and contraindication warnings
C5_Witness ==
    /\ Returned
    /\ \E i \in 1..Len(results) :
        /\ results[i].is_hallucination
        /\ Len(results[i].interaction_note) > 0
        /\ ContraindicationWarnings(results[i]) # {}
        /\ results[i].confidence_score = 20

StartsWith(s, prefix) == Len(s) >= Len(prefix) /\ SubSeq(s, 1, Len(prefix)) = prefix

\* the herb has an entry in the "Verified Remedies" part of the section
InVerifiedSection(herb) ==
    \E i, j \in 1..Len(validation_section) :
        /\ validation_section[i] = VerifiedHeader
        /\ i < j
        /\ \A k \in i..j : validation_section[k] \notin {UnverifiedHeader, LegendHeader}
        /\ StartsWith(validation_section[j], "**" \o title(herb) \o "** ")

\* C6: a herb with a critical or high interaction with a user medication is
\* neither in verified_herbs nor in the "Verified Remedies" section
C6_Disqualified ==
    Returned =>
        \A i \in 1..Len(results) :
            CriticalOrHighMatch(results[i].herb_name, args.user_medications)
                => /\ \A k \in 1..Len(verified_herbs) : verified_herbs[k] # results[i].herb_name
                   /\ ~InVerifiedSection(results[i].herb_name)

\* C7: a herb with evidence and a critical or high match has interaction_note
\* set, warnings non-empty and a score at least 1.0 below the unpenalized one
C7_InteractionPenalty ==
    Returned =>
        \A i \in 1..Len(results) :
            (/\ <<results[i].herb_name, results[i].condition>> \in DOMAIN evidence_db
             /\ CriticalOrHighMatch(results[i].herb_name, args.user_medications))
                => /\ Len(results[i].interaction_note) = 1
                   /\ Len(results[i].warnings) > 0
                   /\ results[i].confidence_score <= UnpenalizedScore(results[i]) - 10

\* a verified herb with a critical match whose unpenalized score is the capped 10.0
C7_Witness ==
    /\ Returned
    /\ \E i \in 1..Len(results) :
        /\ results[i].is_valid
        /\ CriticalOrHighMatch(results[i].herb_name, args.user_medications)
        /\ UnpenalizedScore(results[i]) = 100
        /\ results[i].confidence_score <= 90

ContraindicatedResults == {i \in 1..Len(results) : ContraindicationWarnings(results[i]) # {}}

HallucinatedResults == {i \in 1..Len(results) : results[i].is_hallucination}

\* C8: global_warnings is the contraindication sentence with the number of
\* results that carry a contraindication warning, if there is one, then the
\* unverified sentence with the number of hallucinated results, if there
\* is one, and nothing else
C8_GlobalWarnings ==
    Returned =>
        global_warnings =
            (IF ContraindicatedResults # {}
             THEN <<ToString(Cardinality(ContraindicatedResults))
                    \o " remedy(s) may be contraindicated for you">>
             ELSE <<>>)
            \o
            (IF HallucinatedResults # {}
             THEN <<ToString(Cardinality(HallucinatedResults))
                    \o " suggestion(s) could not be verified against our evidence database">>
             ELSE <<>>)

\* two results carry contraindication warnings, several each, and one of the
\* two is a hallucination
C8_Witness ==
    /\ Returned
    /\ Cardinality(ContraindicatedResults) = 2
    /\ \E i \in ContraindicatedResults : Cardinality(ContraindicationWarnings(results[i])) > 1
    /\ HallucinatedResults # {}
    /\ Len(global_warnings) = 2

\* C9: every herb that is a key of one of the three stores is in known_herbs
C9_RegistryComplete ==
    \A h \in {key[1] : key \in DOMAIN evidence_db}
             \cup DOMAIN interactions_db \cup DOMAIN contraindications :
        h \in known_herbs

\* C10: the herbs of the results are the registry herbs that occur as a whole
\* word in the response, case ignored, less the allergy herbs, each in one result
C10_ResultSet ==
    Returned =>
        /\ ResultHerbs = {h \in known_herbs : OccursAsWord(h, lower(args.llm_response))}
                            \ AllergyHerbs
        /\ Len(results) = Cardinality(ResultHerbs)

\* a herb mentioned twice in the response gets one result
C10_Witness ==
    /\ Returned
    /\ \E h \in ResultHerbs : \E i, j \in 1..(Len(args.llm_response) - Len(h) + 1) :
        /\ i < j
        /\ SubSeq(lower(args.llm_response), i, i + Len(h) - 1) = h
        /\ SubSeq(lower(args.llm_response), j, j + Len(h) - 1) = h
    /\ Len(results) = 1

\* sub occurs in s
IsSubstringOf(sub, s) ==
    \E i \in 1..(Len(s) - Len(sub) + 1) : SubSeq(s, i, i + Len(sub) - 1) = sub

\* n is s in lower case without the blanks at its ends
IsLowerTrimOf(n, s) ==
    \E i \in 1..(Len(s) + 1) : \E j \in (i - 1)..Len(s) :
        /\ n = lower(SubSeq(s, i, j))
        /\ \A k \in 1..(i - 1) : CharAt(s, k) = " "
        /\ \A k \in (j + 1)..Len(s) : CharAt(s, k) = " "
        /\ (j >= i => CharAt(s, i) # " " /\ CharAt(s, j) # " ")

\* the caller passed a condition
Supplied == Len(args.current_condition) > 0 /\ args.current_condition[1] # ""

\* a keyword of the i-th condition of the table occurs in the query
KeywordOccurs(i, query) ==
    \E k \in 1..Len(condition_map[i][2]) : IsSubstringOf(condition_map[i][2][k], lower(query))

\* c is the condition declared first among those with a keyword in the
\* query, 'general health' when there is none
IsFirstMatch(c, query) ==
    IF \E i \in 1..Len(condition_map) : KeywordOccurs(i, query)
    THEN \E i \in 1..Len(condition_map) :
            /\ KeywordOccurs(i, query)
            /\ \A j \in 1..(i - 1) : ~KeywordOccurs(j, query)
            /\ c = condition_map[i][1]
    ELSE c = "general health"

\* the herbs of the results, in the order of the list
ResultOrder == [i \in 1..Len(results) |-> results[i].herb_name]

\* C11: with current_condition passed, every result carries it lowercased and
\* trimmed, the evidence lookup uses it and the call returns what it returns
\* for any other query; without it every result carries the classifier's answer
C11_ExplicitConditionPrecedence ==
    Returned =>
        IF Supplied
        THEN /\ \A i \in 1..Len(results) :
                  /\ IsLowerTrimOf(results[i].condition, args.current_condition[1])
                  /\ results[i].is_valid
                       <=> (\E key \in DOMAIN evidence_db :
                               /\ key[1] = results[i].herb_name
                               /\ IsLowerTrimOf(key[2], args.current_condition[1]))
             /\ VerifyResponse([args EXCEPT !.query = ""], ResultOrder)
                    = [results |-> results, global_warnings |-> global_warnings]
        ELSE \A i \in 1..Len(results) : IsFirstMatch(results[i].condition, args.query)

\* a condition passed in another case and with blanks, a query that names
\* another condition, and a result verified for the condition passed
C11_Witness ==
    /\ Returned
    /\ Supplied
    /\ \E i \in 1..Len(results) :
        /\ results[i].condition # args.current_condition[1]
        /\ results[i].is_valid
        /\ ~IsFirstMatch(results[i].condition, args.query)
        /\ ~IsFirstMatch("general health", args.query)

\* C12: _identify_condition returns the condition declared first among those
\* that have a keyword in the lowercased query, and 'general health' when no
\* keyword occurs
C12_FirstMatchWins ==
    identified # <<>> => IsFirstMatch(identified[1], args.query)

\* the query opens with a keyword of a condition declared after the one returned
C12_Witness ==
    /\ identified # <<>>
    /\ \E i, j \in 1..Len(condition_map) :
        /\ i < j
        /\ identified[1] = condition_map[i][1]
        /\ KeywordOccurs(i, args.query)
        /\ \E k \in 1..Len(condition_map[j][2]) :
              StartsWith(lower(args.query), condition_map[j][2][k])

\* C13: a verify_response call with the arguments of a remembered call
\* returns the results and the global warnings the remembered call returned,
\* whatever was called in between
C13_Idempotent ==
    (op = "validated" /\ remembered # <<>> /\ args = remembered[1].args)
        => /\ {results[i] : i \in 1..Len(results)} = remembered[1].results
           /\ global_warnings = remembered[1].global_warnings

\* the same call made again after other calls and after a caller wrote to a
\* list it was handed, with two results that carry warnings
C13_Witness ==
    /\ op = "validated"
    /\ remembered # <<>>
    /\ remembered[1].again
    /\ args = remembered[1].args
    /\ interactions_db # LoadInteractionDatabase
    /\ Len(results) = 2
    /\ \A i \in 1..Len(results) : Len(results[i].warnings) > 0

\* C14: the three stores and the registry are what __init__ loaded, whatever
\* was called and whatever callers did with the values they were handed
C14_StoresImmutable ==
    /\ evidence_db = LoadEvidenceDatabase
    /\ interactions_db = LoadInteractionDatabase
    /\ contraindications = LoadContraindicationRules
    /\ known_herbs = BuildHerbRegistry(LoadEvidenceDatabase, LoadInteractionDatabase)

\* C15: what a thread's call returned is what verify_response returns for its
\* arguments when run alone, for one of the orders in which the set of found
\* herbs can be iterated
C15_ConcurrentCallsIndependent ==
    \A t \in DOMAIN threads :
        threads[t].pc = "returned"
            => \E order \in Orderings(FoundHerbs(threads[t].args.llm_response,
                                                 threads[t].args.user_allergies)) :
                  threads[t].ret = <<VerifyResponse(threads[t].args, order)>>

\* a call that ran while another call with other arguments was in progress
\* has returned two results, and the other call has returned too
C15_Witness ==
    \E t, u \in DOMAIN threads :
        /\ t # u
        /\ threads[t].pc = "returned"
        /\ threads[u].pc = "returned"
        /\ threads[t].overlapped
        /\ threads[u].overlapped
        /\ threads[t].args.llm_response # threads[u].args.llm_response
        /\ Len(threads[t].ret[1].results) = 2
        /\ Len(threads[u].ret[1].results) = 1

\* the registry herbs that occur as a word in the response of the call and
\* that the allergy list does not name
MentionedHerbs ==
    UNION {{h \in known_herbs : OccursAsWord(h, response_lower)} :
              response_lower \in {lower(args.llm_response)}} \ AllergyHerbs

\* C16: when the response mentions no registry herb, or only herbs of the
\* allergy list, the result list and the global warnings are empty, the
\* formatter returns the empty string for them and the response is unchanged
C16_NothingAppended ==
    (Returned /\ MentionedHerbs = {})
        => /\ results = <<>>
           /\ global_warnings = <<>>
           /\ FormatValidationSection(results, global_warnings) = <<>>
           /\ final_response = <<args.llm_response>>

\* a response that names a herb of the allergy list and, inside a longer
\* word or outside the registry, nothing else the scan finds
C16_Witness ==
    /\ Returned
    /\ MentionedHerbs = {}
    /\ \E h \in AllergyHerbs : OccursAsWord(h, lower(args.llm_response))
    /\ IsSubstringOf("gingerbread", lower(args.llm_response))
    /\ final_response = <<args.llm_response>>

\* the herb has an entry in the "Unverified" part of the section
InUnverifiedSection(herb) ==
    \E i, j \in 1..Len(validation_section) :
        /\ validation_section[i] = UnverifiedHeader
        /\ i < j
        /\ \A k \in i..j : validation_section[k] # LegendHeader
        /\ StartsWith(validation_section[j], "**" \o title(herb) \o "** - ")

\* the text occurs in a line of the section
Rendered(text) ==
    \E k \in 1..Len(validation_section) : IsSubstringOf(text, validation_section[k])

\* every result is listed in the section its flags name and in no other
EachResultInItsSection ==
    \A i \in 1..Len(results) :
        /\ InVerifiedSection(results[i].herb_name) <=> results[i].is_valid
        /\ InUnverifiedSection(results[i].herb_name) <=> results[i].is_hallucination
        /\ results[i].is_valid # results[i].is_hallucination

\* every warning of a verified result occurs in the section
VerifiedWarningsRendered ==
    \A i \in 1..Len(results) :
        results[i].is_valid =>
            \A k \in 1..Len(results[i].warnings) : Rendered(results[i].warnings[k])

\* C17: for a non-empty result list every result is listed in exactly one of
\* the two sections and every warning of every result occurs in the text
C17_AllWarningsShown ==
    (Returned /\ Len(results) > 0)
        => /\ EachResultInItsSection
           /\ \A i \in 1..Len(results) :
                \A k \in 1..Len(results[i].warnings) : Rendered(results[i].warnings[k])

SeverityRank(severity) ==
    CASE severity = CRITICAL -> 3
      [] severity = HIGH -> 2
      [] severity = MODERATE -> 1
      [] OTHER -> 0

\* the pairs <<j, k>> of a medication of the call and a drug key of the herb
\* that match, in either direction
KeyMatches(herb) ==
    IF herb \notin DOMAIN interactions_db THEN {}
    ELSE {m \in (1..Len(args.user_medications)) \X (1..Len(interactions_db[herb].interacts_with)) :
            LET drug_key == interactions_db[herb].interacts_with[m[2]][1]
                med_lower == lower(args.user_medications[m[1]])
            IN IsSubstringOf(drug_key, med_lower) \/ IsSubstringOf(med_lower, drug_key)}

MatchSeverity(herb, m) == interactions_db[herb].interacts_with[m[2]][2]

\* the warning written for the match m
MatchText(herb, m) ==
    IF MatchSeverity(herb, m) \in {CRITICAL, HIGH}
    THEN InteractionText(herb, args.user_medications[m[1]], interactions_db[herb].effect)
    ELSE CautionText(herb, args.user_medications[m[1]], interactions_db[herb].effect)

\* the matches that produce a warning
WarnedMatches(herb) == {m \in KeyMatches(herb) : SeverityRank(MatchSeverity(herb, m)) > 0}

\* the note is absent when nothing matches
NoMatchNoNote ==
    \A i \in 1..Len(results) :
        KeyMatches(results[i].herb_name) = {} => results[i].interaction_note = <<>>

\* C18: interaction_note is the warning of a match of the highest severity
\* among the matches of the herb, and is absent when no medication matches
C18_HighestSeverityNote ==
    Returned =>
        /\ NoMatchNoNote
        /\ \A i \in 1..Len(results) :
            WarnedMatches(results[i].herb_name) # {}
                => \E m \in WarnedMatches(results[i].herb_name) :
                      /\ \A n \in WarnedMatches(results[i].herb_name) :
                            SeverityRank(MatchSeverity(results[i].herb_name, n))
                                <= SeverityRank(MatchSeverity(results[i].herb_name, m))
                      /\ results[i].interaction_note = <<MatchText(results[i].herb_name, m)>>

\* the herb has an evidence entry for the condition
HasEvidence(herb, condition) == <<herb, condition>> \in DOMAIN evidence_db

\* C19: the warnings and the interaction_note of a result are those the same
\* herb gets, with the same medications and user conditions, for every other
\* condition, whether the evidence store has an entry for it or not
C19_SafetyIndependentOfEvidence ==
    claim_result # <<>> =>
        \A c \in ClaimConditions :
            LET other == VerifySingleClaim(claim_args[1].herb_name, c,
                                           claim_args[1].user_conditions,
                                           claim_args[1].user_medications)
            IN /\ other.warnings = claim_result[1].warnings
               /\ other.interaction_note = claim_result[1].interaction_note
               /\ other.is_valid <=> HasEvidence(claim_args[1].herb_name, c)

\* a hallucinated result with an interaction and a contraindication warning
\* whose herb has evidence for another condition
C19_Witness ==
    /\ claim_result # <<>>
    /\ claim_result[1].is_hallucination
    /\ \E c \in ClaimConditions : HasEvidence(claim_args[1].herb_name, c)
    /\ Len(claim_result[1].warnings) >= 2
    /\ claim_result[1].interaction_note # <<>>
    /\ \E k \in 1..Len(claim_result[1].warnings) :
          IsSubstringOf("CONTRAINDICATED", claim_result[1].warnings[k])

\* check_single_interaction has returned
Checked == op = "checked"

\* the keys of the herb's profile, the empty set for a herb outside the store
DrugKeysOf(herb) ==
    IF lower(herb) \in DOMAIN interactions_db
    THEN {interactions_db[lower(herb)].interacts_with[k][1] :
            k \in 1..Len(interactions_db[lower(herb)].interacts_with)}
    ELSE {}

\* C20: check_single_interaction returns a warning exactly when the
\* lowercased herb is in the interaction store and one of its drug keys is a
\* substring of the lowercased medication or contains it; the warning names
\* the herb and the medication as passed
C20_BidirectionalSubstring ==
    Checked =>
        /\ interaction_warning # <<>>
             <=> \E key \in DrugKeysOf(interaction_args[1].herb) :
                    \/ IsSubstringOf(key, lower(interaction_args[1].medication))
                    \/ IsSubstringOf(lower(interaction_args[1].medication), key)
        /\ interaction_warning # <<>>
             => /\ interaction_warning[1].herb = interaction_args[1].herb
                /\ interaction_warning[1].drug = interaction_args[1].medication

\* a warning for a medication that is only a part of a drug key
C20_Witness ==
    /\ Checked
    /\ interaction_warning # <<>>
    /\ interaction_args[1].medication # ""
    /\ \A key \in DrugKeysOf(interaction_args[1].herb) :
          ~IsSubstringOf(key, lower(interaction_args[1].medication))

\* the rule of the herb blocks the user's condition: one of its conditions is,
\* in lower case, a substring of the lowercased condition string
BlockedBy(herb, user_cond) ==
    /\ lower(herb) \in DOMAIN contraindications
    /\ \E i \in 1..Len(contraindications[lower(herb)].conditions) :
          IsSubstringOf(lower(contraindications[lower(herb)].conditions[i]), lower(user_cond))

\* the CONTRAINDICATED warnings of a result
ContraindicatedWarnings(r) ==
    {r.warnings[k] : k \in {n \in 1..Len(r.warnings) : StartsWith(r.warnings[n], "CONTRAINDICATED: ")}}

\* C21: the result of _verify_single_claim carries a CONTRAINDICATED warning
\* exactly when the herb is in the contraindication store and one of its
\* blocked conditions is, case-insensitively, a substring of one of the
\* user's condition strings; each such warning names the herb and a blocked
\* user condition; a herb outside the store and a user with no conditions
\* get none
C21_ContraindicationCheck ==
    claim_result # <<>> =>
        LET a == claim_args[1]
            blocked == {a.user_conditions[j] : j \in {n \in 1..Len(a.user_conditions) :
                                                       BlockedBy(a.herb_name, a.user_conditions[n])}}
        IN /\ ContraindicatedWarnings(claim_result[1]) =
                  {ContraindicatedText(a.herb_name, c) : c \in blocked}
           /\ (ContraindicatedWarnings(claim_result[1]) # {}) <=>
                  (/\ lower(a.herb_name) \in DOMAIN contraindications
                   /\ \E j \in 1..Len(a.user_conditions) : BlockedBy(a.herb_name, a.user_conditions[j]))
           /\ lower(a.herb_name) \notin DOMAIN contraindications =>
                  ContraindicatedWarnings(claim_result[1]) = {}
           /\ a.user_conditions = <<>> => ContraindicatedWarnings(claim_result[1]) = {}

\* a herb of the store is contraindicated for a condition written in another
\* case than the rule's
C21_Witness ==
    /\ claim_result # <<>>
    /\ claim_args[1].herb_name \in DOMAIN contraindications
    /\ claim_args[1].user_conditions = <<"Gallstones">>
    /\ ContraindicatedWarnings(claim_result[1]) # {}

\* a herb of the store and a user condition that its rule does not block
C21_WitnessNotBlocked ==
    /\ claim_result # <<>>
    /\ claim_args[1].herb_name \in DOMAIN contraindications
    /\ claim_args[1].user_conditions = <<"Liver Disease">>
    /\ ContraindicatedWarnings(claim_result[1]) = {}

\* the score the scorer computes for another tier, the citation count, the
\* mechanism and the warning count being those of its input
ScoreForTier(t) ==
    ConfidenceScore(t, score_in.pubmed_count, score_in.has_mechanism, score_in.warning_count)

\* C22: with the citation count, the mechanism presence and the warning
\* count held fixed, the score of a lower tier number is greater than or
\* equal to the score of a higher tier number, for all tiers 1..5
C22_TierMonotonicity ==
    score_out # <<>> =>
        \A t \in 1..5 :
            /\ t > score_in.tier => ScoreForTier(t) <= score_out[1]
            /\ t < score_in.tier => ScoreForTier(t) >= score_out[1]

\* the floor makes the next tier's score equal and the previous tier's score
\* is strictly greater
C22_Witness ==
    /\ score_out # <<>>
    /\ score_in.tier = 4
    /\ score_in.warning_count >= 1
    /\ ScoreForTier(5) = score_out[1]
    /\ ScoreForTier(3) > score_out[1]

\* every record is stored under its own id, and the ids are 1..len(data)
IntegerKeyed(data) ==
    /\ DOMAIN data = 1..Cardinality(DOMAIN data)
    /\ \A k \in DOMAIN data : data[k].id = k

\* no two records have the same name, case-insensitively
NamesUnique(data) ==
    \A j, k \in DOMAIN data : j # k => lower(data[j].name) # lower(data[k].name)

\* the part of the contract create keeps: distinct integer ids equal to the keys
RepositoryIntegerKeyed == IntegerKeyed(HERBS_DATA) /\ IntegerKeyed(DISEASES_DATA)

\* get_by_name returns a stored record of that name, the one stored first, and
\* None only when there is none
GetByNameReturnsFirst ==
    lookup # <<>> =>
        LET data == IF lookup[1].repository = "herb" THEN HERBS_DATA ELSE DISEASES_DATA
            same == {k \in DOMAIN data : lower(data[k].name) = lower(lookup[1].name)}
        IN IF same = {} THEN lookup[1].ret = <<>>
           ELSE lookup[1].ret = <<data[CHOOSE k \in same : \A j \in same : k <= j]>>

\* C23: after any sequence of HerbRepository.create / DiseaseRepository.create
\* calls every stored record has a distinct integer id equal to its key and
\* no two stored records have the same name, case-insensitively
C23_RepositoryIdentity ==
    /\ IntegerKeyed(HERBS_DATA) /\ NamesUnique(HERBS_DATA)
    /\ IntegerKeyed(DISEASES_DATA) /\ NamesUnique(DISEASES_DATA)

\* two records of one name are stored and get_by_name finds the first only
C23_SecondRecordHidden ==
    /\ lookup # <<>>
    /\ lookup[1].repository = "herb"
    /\ lookup[1].ret # <<>>
    /\ \E k \in DOMAIN HERBS_DATA :
          /\ k # lookup[1].ret[1].id
          /\ lower(HERBS_DATA[k].name) = lower(lookup[1].name)

C26_ClearedSubjectContext ==
    \A u \in Users :
        subject_calls[u] = "cleared" => GetSubjectContext(memory_store, u, clock) = EmptyDict

\* what clear_subject_context does keep: the entry it writes, 'subject', is
\* empty, and the entry get_subject_context reads is the one stored by the
\* last update_subject_context
ClearedWritesSubjectKey ==
    \A u \in Users :
        subject_calls[u] = "cleared" =>
            /\ GetData(memory_store, u, "subject") = EmptyDict
            /\ GetData(memory_store, u, "subject_context") # EmptyDict
            /\ GetData(memory_store, u, "subject_context").asking_for_other
            /\ CacheKey(u, "previous_subject") \notin DOMAIN memory_store

\* after the clear the subject context is returned until it has expired
ClearedUntilExpired ==
    \A u \in Users :
        subject_calls[u] = "cleared" =>
            (GetSubjectContext(memory_store, u, clock) = EmptyDict
                <=> clock - GetData(memory_store, u, "subject_context").timestamp
                        > SUBJECT_CONTEXT_TIMEOUT)

\* C27: get_current_condition returns a condition detected in the latest
\* query in which update_context detected a tracked condition, also when
\* that condition had been mentioned earlier in the conversation, and None
\* when no condition was ever tracked
C27_MostRecentCondition ==
    \A u \in Users :
        IF latest_detected[u].conditions = {}
        THEN GetCurrentCondition(memory_store, u, clock) = <<>>
        ELSE /\ GetCurrentCondition(memory_store, u, clock) # <<>>
             /\ GetCurrentCondition(memory_store, u, clock)[1] \in latest_detected[u].conditions

\* what get_current_condition does return: None when nothing was tracked,
\* else the condition added to the list last; it is one of the latest
\* query's conditions whenever that query added one
CurrentIsLastAdded ==
    \A u \in Users :
        /\ (latest_detected[u].conditions = {}) <=> (GetCurrentCondition(memory_store, u, clock) = <<>>)
        /\ latest_detected[u].added # {} =>
               GetCurrentCondition(memory_store, u, clock)[1] \in latest_detected[u].added

\* the latest query mentioned again a condition tracked before another one
C27_MentionedAgain ==
    \E u \in Users :
        /\ latest_detected[u].conditions = {"headache"}
        /\ latest_detected[u].added = {}
        /\ GetCurrentCondition(memory_store, u, clock) = <<"cold">>

(***************************************************************************)
(* execute_rag_pipeline: stopped medications and emergencies               *)
(***************************************************************************)
\* the medications update_context recorded as removed for the query of the turn
RemovedMedications ==
    {MEDICATION_KEYWORDS[i][1] : i \in {k \in 1..Len(MEDICATION_KEYWORDS) :
        InList("medication:  " \o MEDICATION_KEYWORDS[k][1], turn.removed)}}

\* the list without the entries equal to the name
Without(list, name) == SelectSeq(list, LAMBDA x : x # name)

\* C24: a medication the user reports as stopped in the query of the turn (a
\* removal recorded by update_context) is not in the medication list handed
\* to verify_response; no warning of a result names it and every score is
\* the score the herb gets without it
C24_StoppedNotChecked ==
    op = "served" =>
        \A m \in RemovedMedications :
            /\ ~InList(m, args.user_medications)
            /\ \A i \in 1..Len(results) :
                 /\ \A k \in 1..Len(results[i].warnings) :
                        ~Contains(m, lower(results[i].warnings[k]))
                 /\ results[i].confidence_score =
                        VerifySingleClaim(results[i].herb_name, results[i].condition,
                                          args.user_conditions,
                                          Without(args.user_medications, m)).confidence_score

\* what the pipeline does with a stopped medication: it is gone from the
\* accumulated context, and it is handed to verify_response all the same,
\* because the query that reports it as stopped names it
StoppedStillVerified ==
    op = "served" =>
        \A m \in RemovedMedications :
            /\ ~InList(m, turn.accumulated_medications)
            /\ InList(m, ExtractEntities(turn.query).medications)
            /\ InList(m, args.user_medications)

\* a turn in which a stopped medication lowered the score of a verified herb
C24_StoppedPenalized ==
    /\ op = "served"
    /\ RemovedMedications = {"aspirin"}
    /\ args.user_medications = <<"aspirin">>
    /\ \E i \in 1..Len(results) :
        /\ results[i].herb_name = "ginger"
        /\ results[i].is_valid
        /\ results[i].confidence_score <
               VerifySingleClaim("ginger", results[i].condition, <<>>, <<>>).confidence_score

\* a line of the validation section that is an interaction warning
IsInteractionWarning(line) == Contains("INTERACTION: ", line) \/ Contains("Caution: ", line)

\* C25: after the filter for stopped medications, no line of the validation
\* section appended to the response is an interaction warning that names a
\* stopped medication
C25_FilterReachesText ==
    op = "served" =>
        \A m \in RemovedMedications :
            \A i \in 1..Len(validation_section) :
                ~(IsInteractionWarning(validation_section[i])
                  /\ Contains(m, lower(validation_section[i])))

\* what the filter does reach: the global warnings, the interaction notes
\* and with them the entries of the unverified section
FilterReachesNotes ==
    op = "served" =>
        \A m \in RemovedMedications :
            /\ \A i \in 1..Len(global_warnings) : ~Contains(m, lower(global_warnings[i]))
            /\ \A i \in 1..Len(results) :
                 /\ results[i].interaction_note = <<>>
                    \/ ~Contains(m, lower(results[i].interaction_note[1]))
                 /\ results[i].is_hallucination =>
                        \A k \in 1..Len(UnverifiedBlock(results[i])) :
                            ~Contains(m, lower(UnverifiedBlock(results[i])[k]))

\* the warning of a verified herb is printed although its note was removed
C25_WarningPrinted ==
    /\ op = "served"
    /\ RemovedMedications = {"aspirin"}
    /\ \E i \in 1..Len(results) :
        /\ results[i].is_valid /\ ~results[i].is_hallucination
        /\ results[i].interaction_note = <<>>
        /\ \E k \in 1..Len(results[i].warnings) :
            /\ Contains("aspirin", lower(results[i].warnings[k]))
            /\ InList(results[i].warnings[k], validation_section)

\* one of the keywords of check_emergency is in the lowered query
IsEmergencyQuery(query) ==
    \E i \in 1..Len(emergency_keywords) :
        \E k \in 1..Len(emergency_keywords[i][2]) :
            Contains(emergency_keywords[i][2][k], lower(query))

\* C29: a call of execute_rag_pipeline whose query holds an emergency keyword
\* returns the emergency response and does nothing else: the conversation
\* store of the manager is as before the call, and no retrieval, generation
\* or verification was performed
C29_EmergencyShortCircuit ==
    [][(turn'.n = turn.n + 1 /\ IsEmergencyQuery(turn'.query)) =>
          /\ memory_store' = memory_store
          /\ turn'.steps = {}
          /\ turn'.emergency_type # <<>>
          /\ final_response' = <<GetEmergencyResponse(turn'.emergency_type[1])>>
          /\ args' = NoArgs
          /\ results' = <<>>
          /\ validation_section' = <<>>]_vars

\* an emergency written in capitals, in a conversation that has a history
\* and a tracked medication
C29_Witness ==
    /\ turn.n = 2
    /\ turn.query = "I have CHEST PAIN"
    /\ op = "emergency"
    /\ final_response = <<"**EMERGENCY - POSSIBLE HEART ATTACK**">>
    /\ Len(GetHistory(memory_store, turn.email_id)) = 2
    /\ GetContext(memory_store, turn.email_id, clock).medications = <<"aspirin">>

(***************************************************************************)
(* Low-severity interactions                                               *)
(***************************************************************************)
\* every drug key of the herb that medication j of the call matches has a
\* severity below MODERATE; so it is when the medication matches no key
LowOnly(herb, j) ==
    \A m \in KeyMatches(herb) : m[1] = j => SeverityRank(MatchSeverity(herb, m)) = 0

\* the list without its entry j
RemoveAt(list, j) == SubSeq(list, 1, j - 1) \o SubSeq(list, j + 1, Len(list))

\* C30: a medication that matches only drug keys of severity low, or none,
\* for a herb is silent: the warnings, the interaction_note and the score of
\* the herb's result are those of the call without that medication, and when
\* all the medications are such, the warnings hold no interaction text, the
\* interaction_note is absent and the score carries no interaction penalty
C30_LowSeveritySilent ==
    Returned =>
        \A i \in 1..Len(results) :
            /\ \A j \in 1..Len(args.user_medications) :
                 LowOnly(results[i].herb_name, j) =>
                    LET without == VerifySingleClaim(results[i].herb_name, results[i].condition,
                                                     args.user_conditions,
                                                     RemoveAt(args.user_medications, j))
                    IN /\ results[i].warnings = without.warnings
                       /\ results[i].interaction_note = without.interaction_note
                       /\ results[i].confidence_score = without.confidence_score
            /\ (\A j \in 1..Len(args.user_medications) : LowOnly(results[i].herb_name, j)) =>
                 /\ ContraindicationWarnings(results[i]) = 1..Len(results[i].warnings)
                 /\ results[i].interaction_note = <<>>
                 /\ results[i].confidence_score =
                        VerifySingleClaim(results[i].herb_name, results[i].condition,
                                          args.user_conditions, <<>>).confidence_score

\* chamomile, verified, with a medication that matches two of its LOW keys:
\* no warning, no note, the score of the call without medications
C30_Witness ==
    /\ Returned
    /\ \E i \in 1..Len(results) : \E j \in 1..Len(args.user_medications) :
        /\ results[i].herb_name = "chamomile"
        /\ results[i].is_valid
        /\ Cardinality({m \in KeyMatches("chamomile") : m[1] = j}) = 2
        /\ LowOnly("chamomile", j)
        /\ results[i].warnings = <<>>
        /\ results[i].interaction_note = <<>>
        /\ results[i].confidence_score = UnpenalizedScore(results[i])

====
